---- MODULE Spec2Model ----
(***************************************************************************)
(* Multi-cloud storage uploader                                            *)
(* (src/wasabi+cloudflare+impossibleapi_multi_cloud_upload.py).            *)
(*                                                                         *)
(* One run of the script's __main__ block is modelled as a state machine:  *)
(* initialize_all_clients, check_all_buckets, get_local_files_size,        *)
(* check_all_size_limits, upload_all_files, print_summary.  Every loop     *)
(* iteration of these functions is one step.  The S3 client (boto3) is the *)
(* environment: each of its calls returns, raises botocore's ClientError,  *)
(* or raises some other exception.  The script's handlers are              *)
(* `except ClientError` (and `except Exception` for client construction),  *)
(* so any other exception leaves the function that made the call and, as   *)
(* nothing above catches it, ends the process (pc = "crashed").            *)
(*                                                                         *)
(* The ProgressTracker that upload_file_to_cloud hands to upload_file is   *)
(* modelled on its own (TrackerSpec): one instance called back by the      *)
(* worker threads of one transfer.  So are a paginated bucket listing that *)
(* may fail between pages (ListingSpec), the single-target uploader run    *)
(* against a bucket whose objects are state (R2Spec), and its upload loop  *)
(* with the module-level progress counters (UploadFilesSpec).              *)
(***************************************************************************)
EXTENDS Integers, Sequences, FiniteSets, TLC

\* 1024 ** 3, the bytes of one GB as the script computes them.
GiB == 1073741824

\* Bounds of the model.
MaxEntries == 2
MaxFaults == 1

\* The three provider configurations, in the order every loop visits them.
configs == <<"Cloudflare R2", "ImpossibleCloud", "Wasabi">>

TargetNames == {configs[i] : i \in 1..Len(configs)}

\* Python's None for max_size_gb; a configured limit of g GB is <<g>>.
None == <<>>

QuotaChoices == {None, <<1>>}

\* Names os.listdir may return (distinct, in listing order).
EntryNames == <<"a", "b", "c", "d">>

AllNames == {EntryNames[i] : i \in 1..MaxEntries}

FileSizes == {0, 1}

\* Occupied sizes a bucket listing may add up to.
ExistingSizes == {0, GiB - 1}

EntryChoices ==
    {[name |-> n, is_file |-> TRUE, size |-> s] : n \in AllNames, s \in FileSizes}
    \cup {[name |-> n, is_file |-> FALSE, size |-> 0] : n \in AllNames}

\* Listings of n entries, in the order os.listdir gives them.
Listings(n) ==
    {l \in [1..n -> EntryChoices] : \A i \in 1..n : l[i].name = EntryNames[i]}

\* The empty folder and the folders of MaxEntries entries; a folder with
\* fewer files is one with directories among its entries.
FolderListings == Listings(0) \cup Listings(MaxEntries)

VARIABLES
    enabled,            \* config['enabled'] per target
    max_size_gb,        \* config['max_size_gb'] per target
    client,             \* config['client'] per target: "None" or "live"
    init_calls,         \* calls of boto3.client per target
    init_failed,        \* targets whose boto3.client call raised
    folder_exists,      \* os.path.exists(FOLDER_PATH)
    folder,             \* os.listdir(FOLDER_PATH) with each entry's kind and size
    pc,                 \* position in __main__
    ti,                 \* index into configs of the running loop
    fi,                 \* index of the running file loop
    files_to_upload,    \* result of get_local_files_size
    new_files_size,     \* result of get_local_files_size
    existing_size,      \* local of check_all_size_limits
    size_check_results, \* dict name -> bool built by check_all_size_limits
    results,            \* dict name -> list of item names built by upload_all_files
    presigned_urls,     \* local list of generate_presigned_urls (file names)
    links,              \* per target, the file names whose url print_summary printed
    exit_code,          \* argument of exit(), -1 while the process runs
    bucket_ok,          \* return value of create_bucket_if_not_exists per target
    bucket_missing,     \* targets whose head_bucket said '404' and create_bucket raised
    size_queries,       \* list_objects_v2 listings started by check_all_size_limits
    size_query_failed,  \* targets whose listing for check_all_size_limits raised
    cap_evals,          \* calls of check_size_limit / the no-limit branch per target
    upload_calls,       \* calls of client.upload_file per (target, item)
    upload_log,         \* the (target, item) of every upload_file call, in call order
    upload_ok,          \* (target, item) pairs whose upload_file returned
    upload_failed,      \* (target, item) pairs whose upload_file raised
    presign_calls,      \* calls of generate_presigned_url per (target, item)
    presign_ok,         \* (target, item) pairs whose presign returned a url
    presign_failed,     \* (target, item) pairs whose presign raised
    faults              \* number of client calls that have raised so far

\* One ProgressTracker and the transfer workers that call it.
VARIABLES
    tracker,            \* "off", or "live" once a ProgressTracker is constructed
    total_bytes,        \* self.total_bytes
    bytes_transferred,  \* self.bytes_transferred
    start_time,         \* self.start_time (milliseconds)
    last_print_time,    \* self.last_print_time (milliseconds)
    clock,              \* what time.time() returns (milliseconds)
    wpc,                \* per worker, its position in __call__
    new_bytes,          \* per worker, the argument of its __call__
    loaded,             \* per worker, the value `+=` read from self.bytes_transferred
    current_time,       \* per worker, the local current_time
    remaining_bytes,    \* per worker, the local remaining_bytes
    estimated_remaining_time, \* per worker, the local estimated_remaining_time
    raised,             \* the divisions that raised ZeroDivisionError so far
    printed,            \* the progress lines printed so far
    calls,              \* number of __call__ invocations started
    passed              \* sum of the bytes_amount arguments of those invocations

\* One paginated list_objects_v2 listing, examined on its own (ListingSpec).
VARIABLES
    listing,            \* the function that lists: "get_bucket_size" or "list_files_in_bucket"
    list_client,        \* the client handle it is given: "None" or "live"
    objects,            \* the bucket's objects ([Key, Size]) in listing order
    lpc,                \* position in the function
    lp,                 \* number of the page the `for page in pages` loop fetches next
    total_size,         \* local total_size of get_bucket_size
    file_count,         \* local file_count of get_bucket_size
    files,              \* local files of list_files_in_bucket
    list_ret,           \* the value returned to the caller
    list_error          \* "none", or what the paginator raised

listVars == <<listing, list_client, objects, lpc, lp, total_size, file_count,
              files, list_ret, list_error>>

\* The single-target uploader (src/individual_s3_upload_folder_cloudflare_r2_api.py),
\* examined on its own (R2Spec).  Its __main__ shares pc, fi, folder_exists,
\* folder, files_to_upload, new_files_size, existing_size and exit_code with
\* the multi-cloud uploader's; what follows is what it has besides.
VARIABLES
    bucket_exists,      \* whether BUCKET_NAME exists at the provider
    bucket,             \* the bucket's objects: size by key
    head_calls,         \* calls of head_bucket
    head_result,        \* "none", "ok", "404", "ClientError" or "Other"
    create_calls,       \* calls of create_bucket
    create_result,      \* "none", "ok", "ClientError" or "Other"
    bucket_ret,         \* what create_bucket_if_not_exists returned: "none", "True", "False"
    query_failed,       \* get_bucket_size ran into its `except ClientError`
    check_passed,       \* what check_size_limit returned: "none", "True", "False"
    uploaded_files      \* the list upload_files builds

r2Vars == <<bucket_exists, bucket, head_calls, head_result, create_calls,
            create_result, bucket_ret, query_failed, check_passed, uploaded_files>>

\* The variables of the parts examined on their own, apart from the tracker's.
sideVars == <<listVars, r2Vars>>

trackerVars == <<tracker, total_bytes, bytes_transferred, start_time,
                 last_print_time, clock, wpc, new_bytes, loaded, current_time,
                 remaining_bytes, estimated_remaining_time, raised,
                 printed, calls, passed>>

vars == <<trackerVars, sideVars,
          enabled, max_size_gb, client, init_calls, init_failed, folder_exists, folder, pc, ti, fi,
          files_to_upload, new_files_size, existing_size, size_check_results,
          results, presigned_urls, links, exit_code, bucket_ok, bucket_missing,
          size_queries, size_query_failed, cap_evals,
          upload_calls, upload_log, upload_ok, upload_failed, presign_calls, presign_ok,
          presign_failed, faults>>

\* What no step of __main__ changes: the configuration, the folder, and the
\* ProgressTracker examined on its own below.
cfgVars == <<enabled, max_size_gb, folder_exists, folder, trackerVars, sideVars>>

Pairs == TargetNames \X AllNames

\* The transfer workers of one upload_file call (max_concurrency of them in
\* the script; two suffice to interleave).
Workers == {"w1", "w2"}

\* estimated_remaining_time = "Unknown"; a computed ETA of s seconds is <<s>>.
Unknown == <<>>

\* No ProgressTracker is under examination.
TrackerOff ==
    /\ tracker = "off"
    /\ total_bytes = 0
    /\ bytes_transferred = 0
    /\ start_time = 0
    /\ last_print_time = 0
    /\ clock = 0
    /\ wpc = [w \in Workers |-> "idle"]
    /\ new_bytes = [w \in Workers |-> 0]
    /\ loaded = [w \in Workers |-> 0]
    /\ current_time = [w \in Workers |-> 0]
    /\ remaining_bytes = [w \in Workers |-> 0]
    /\ estimated_remaining_time = [w \in Workers |-> Unknown]
    /\ raised = {}
    /\ printed = <<>>
    /\ calls = 0
    /\ passed = 0

\* No listing is under examination.
ListingOff ==
    /\ listing = "off"
    /\ list_client = "None"
    /\ objects = <<>>
    /\ lpc = "off"
    /\ lp = 1
    /\ total_size = 0
    /\ file_count = 0
    /\ files = <<>>
    /\ list_ret = <<>>
    /\ list_error = "none"

\* The single-target uploader is not running.
R2Off ==
    /\ bucket_exists = FALSE
    /\ bucket = <<>>
    /\ head_calls = 0
    /\ head_result = "none"
    /\ create_calls = 0
    /\ create_result = "none"
    /\ bucket_ret = "none"
    /\ query_failed = FALSE
    /\ check_passed = "none"
    /\ uploaded_files = <<>>

SideOff == ListingOff /\ R2Off

Init ==
    /\ TrackerOff
    /\ SideOff
    /\ enabled \in [TargetNames -> BOOLEAN]
    /\ max_size_gb \in [TargetNames -> QuotaChoices]
    /\ client = [t \in TargetNames |-> "None"]
    /\ init_calls = [t \in TargetNames |-> 0]
    /\ init_failed = {}
    /\ folder_exists \in BOOLEAN
    /\ folder \in FolderListings
    /\ (~folder_exists => folder = <<>>)
    /\ pc = "init"
    /\ ti = 1
    /\ fi = 1
    /\ files_to_upload = <<>>
    /\ new_files_size = 0
    /\ existing_size = 0
    /\ size_check_results = <<>>
    /\ results = [t \in TargetNames |-> <<>>]
    /\ presigned_urls = <<>>
    /\ links = [t \in TargetNames |-> <<>>]
    /\ exit_code = -1
    /\ bucket_ok = [t \in TargetNames |-> "unchecked"]
    /\ bucket_missing = {}
    /\ size_queries = [t \in TargetNames |-> 0]
    /\ size_query_failed = {}
    /\ cap_evals = [t \in TargetNames |-> 0]
    /\ upload_calls = [p \in Pairs |-> 0]
    /\ upload_log = <<>>
    /\ upload_ok = {}
    /\ upload_failed = {}
    /\ presign_calls = [p \in Pairs |-> 0]
    /\ presign_ok = {}
    /\ presign_failed = {}
    /\ faults = 0

scanVars == <<files_to_upload, new_files_size>>
sizeVars == <<existing_size, size_check_results, size_queries, size_query_failed,
              cap_evals>>
upVars == <<results, upload_calls, upload_log, upload_ok, upload_failed>>
preVars == <<presigned_urls, links, presign_calls, presign_ok, presign_failed>>
bucketVars == <<bucket_ok, bucket_missing>>
clientVars == <<client, init_calls, init_failed>>

\* An uncaught exception unwinds __main__: the process ends where it stands.
Crash ==
    /\ pc' = "crashed"
    /\ UNCHANGED <<ti, fi, exit_code>>

\* The environment may make a client call raise while the fault budget lasts.
MayRaise == faults < MaxFaults

Raised == faults' = faults + 1

----------------------------------------------------------------------------
(* initialize_r2_client / initialize_s3_client, called in turn by          *)
(* initialize_all_clients.                                                 *)

\* for-step of initialize_all_clients: the next configuration, or on to
\* check_all_buckets.
NextClient ==
    IF ti < Len(configs)
    THEN /\ ti' = ti + 1
         /\ UNCHANGED <<pc, fi>>
    ELSE /\ ti' = 1
         /\ pc' = "buckets"
         /\ UNCHANGED fi

initialize_client_disabled ==
    /\ pc = "init"
    /\ ~enabled[configs[ti]]
    /\ NextClient
    /\ UNCHANGED <<cfgVars, clientVars, scanVars, sizeVars, upVars, preVars,
                   exit_code, bucketVars, faults>>

initialize_client_ok ==
    /\ pc = "init"
    /\ enabled[configs[ti]]
    /\ client' = [client EXCEPT ![configs[ti]] = "live"]
    /\ init_calls' = [init_calls EXCEPT ![configs[ti]] = @ + 1]
    /\ UNCHANGED init_failed
    /\ NextClient
    /\ UNCHANGED <<cfgVars, scanVars, sizeVars, upVars, preVars,
                   exit_code, bucketVars, faults>>

\* Mutant of initialize_client_failed: the failure ends initialize_all_clients,
\* the targets after this one are not initialised.
initialize_client_failed_aborts ==
    /\ pc = "init"
    /\ enabled[configs[ti]]
    /\ MayRaise
    /\ Raised
    /\ client' = [client EXCEPT ![configs[ti]] = "None"]
    /\ init_calls' = [init_calls EXCEPT ![configs[ti]] = @ + 1]
    /\ init_failed' = init_failed \cup {configs[ti]}
    /\ ti' = 1
    /\ pc' = "buckets"
    /\ UNCHANGED fi
    /\ UNCHANGED <<cfgVars, scanVars, sizeVars, upVars, preVars,
                   exit_code, bucketVars>>

\* boto3.client raised: `except Exception` clears the handle.
initialize_client_failed ==
    /\ pc = "init"
    /\ enabled[configs[ti]]
    /\ MayRaise
    /\ Raised
    /\ client' = [client EXCEPT ![configs[ti]] = "None"]
    /\ init_calls' = [init_calls EXCEPT ![configs[ti]] = @ + 1]
    /\ init_failed' = init_failed \cup {configs[ti]}
    /\ NextClient
    /\ UNCHANGED <<cfgVars, scanVars, sizeVars, upVars, preVars,
                   exit_code, bucketVars>>

initialize_all_clients ==
    \/ initialize_client_disabled
    \/ initialize_client_ok
    \/ initialize_client_failed

----------------------------------------------------------------------------
(* check_all_buckets and create_bucket_if_not_exists.                      *)

NextBucket ==
    IF ti < Len(configs)
    THEN /\ ti' = ti + 1
         /\ UNCHANGED <<pc, fi>>
    ELSE /\ ti' = 1
         /\ pc' = "scan"
         /\ UNCHANGED fi

\* Outcomes of head_bucket followed, after a '404', by create_bucket.
\* head: "ok", "404", "ClientError" (another code), "Other" (not a ClientError)
\* create: "ok", "ClientError", "Other"; "-" when create_bucket is not called.
BucketOutcomes ==
    {<<"ok", "-">>, <<"404", "ok">>, <<"404", "ClientError">>, <<"404", "Other">>,
     <<"ClientError", "-">>, <<"Other", "-">>}

\* Calls that raised for a reason other than the bucket being absent ('404').
BucketFaults(o) ==
    (IF o[1] \in {"ClientError", "Other"} THEN 1 ELSE 0)
    + (IF o[2] \in {"ClientError", "Other"} THEN 1 ELSE 0)

BucketEscapes(o) == o[1] = "Other" \/ o[2] = "Other"

\* The target, when head_bucket answered '404' and create_bucket raised.
CreationFailed(t, o) ==
    IF o[1] = "404" /\ o[2] \in {"ClientError", "Other"} THEN {t} ELSE {}

\* Return value of create_bucket_if_not_exists when no exception escapes it.
create_bucket_if_not_exists(t, o) ==
    IF client[t] = "None" THEN FALSE
    ELSE IF o[1] = "ok" THEN TRUE
    ELSE IF o[1] = "404" THEN o[2] = "ok"
    ELSE FALSE

check_bucket_skip ==
    /\ pc = "buckets"
    /\ ~(enabled[configs[ti]] /\ client[configs[ti]] = "live")
    /\ NextBucket
    /\ UNCHANGED <<cfgVars, clientVars, scanVars, sizeVars, upVars, preVars,
                   exit_code, bucketVars, faults>>

check_bucket_returns ==
    /\ pc = "buckets"
    /\ enabled[configs[ti]] /\ client[configs[ti]] = "live"
    /\ \E o \in BucketOutcomes :
         /\ ~BucketEscapes(o)
         /\ faults + BucketFaults(o) <= MaxFaults
         /\ faults' = faults + BucketFaults(o)
         /\ bucket_ok' = [bucket_ok EXCEPT ![configs[ti]] =
               IF create_bucket_if_not_exists(configs[ti], o) THEN "ok" ELSE "failed"]
         /\ bucket_missing' = bucket_missing \cup CreationFailed(configs[ti], o)
    /\ NextBucket
    /\ UNCHANGED <<cfgVars, clientVars, scanVars, sizeVars, upVars, preVars, exit_code>>

check_bucket_escapes ==
    /\ pc = "buckets"
    /\ enabled[configs[ti]] /\ client[configs[ti]] = "live"
    /\ \E o \in BucketOutcomes :
         /\ BucketEscapes(o)
         /\ faults + BucketFaults(o) <= MaxFaults
         /\ faults' = faults + BucketFaults(o)
         /\ bucket_missing' = bucket_missing \cup CreationFailed(configs[ti], o)
    /\ Crash
    /\ UNCHANGED <<cfgVars, clientVars, scanVars, sizeVars, upVars, preVars, bucket_ok>>

check_all_buckets ==
    \/ check_bucket_skip
    \/ check_bucket_returns
    \/ check_bucket_escapes

----------------------------------------------------------------------------
(* get_local_files_size and the `if not files_to_upload: exit(0)` of       *)
(* __main__.                                                               *)

RECURSIVE SumSizes(_)
SumSizes(s) == IF s = <<>> THEN 0 ELSE s[1].size + SumSizes(Tail(s))

IsFile(e) == e.is_file

\* Mutant of exit_status: an empty folder is reported as an error too.
exit_status_always_error(why) == 1

\* The argument __main__ gives exit(): 0 after "No files found", 1 after
\* "All providers failed size checks".
exit_status(why) == IF why = "no_files" THEN 0 ELSE 1

\* (item_name, item_path, file_size) for every listed entry that is a file,
\* in listing order; nothing when the folder does not exist.
ScannedFiles ==
    IF ~folder_exists THEN <<>> ELSE SelectSeq(folder, IsFile)

\* get_local_files_size returns what it scanned; `if not files_to_upload`
\* ends the run.
get_local_files_size_returns ==
    /\ pc = "scan"
    /\ files_to_upload' = ScannedFiles
    /\ new_files_size' = SumSizes(ScannedFiles)
    /\ IF ScannedFiles = <<>>
       THEN /\ pc' = "exited"
            /\ exit_code' = exit_status("no_files")
       ELSE /\ pc' = "sizes"
            /\ UNCHANGED exit_code
    /\ UNCHANGED <<ti, fi, cfgVars, clientVars, sizeVars, upVars, preVars,
                   bucketVars, faults>>

\* os.listdir or os.path.getsize raises (FOLDER_PATH is not a directory or
\* cannot be read, an entry vanished): __main__ calls get_local_files_size
\* outside any try, so the exception ends the process.
get_local_files_size_escapes ==
    /\ pc = "scan"
    /\ folder_exists
    /\ Crash
    /\ UNCHANGED <<cfgVars, clientVars, scanVars, sizeVars, upVars, preVars,
                   bucketVars, faults>>

get_local_files_size ==
    \/ get_local_files_size_returns
    \/ get_local_files_size_escapes

----------------------------------------------------------------------------
(* check_all_size_limits, get_bucket_size, check_size_limit and the        *)
(* `if not any(size_check_results.values()): exit(1)` of __main__.         *)

\* Mutant of Skipped: the client handle is not looked at.
Skipped_enabled_only(t) == ~enabled[t]

\* `if not config['enabled'] or not config['client']: continue`
Skipped(t) == ~enabled[t] \/ client[t] = "None"

\* max_size_gb * 1024 ** 3
max_size_bytes(gb) == gb[1] * GiB

\* Mutant of check_size_limit: a batch that fills the quota exactly is refused.
check_size_limit_strict(gb, existing, new_size) ==
    IF gb = None
    THEN TRUE
    ELSE existing + new_size < max_size_bytes(gb)

\* First component of check_size_limit's result.
check_size_limit(gb, existing, new_size) ==
    IF gb = None
    THEN TRUE
    ELSE existing + new_size <= max_size_bytes(gb)

\* Mutant of size_check_entry: a missing limit is read as a limit of 0 bytes.
size_check_entry_falsy(gb, existing, new_size) ==
    IF gb # None
    THEN check_size_limit(gb, existing, new_size)
    ELSE existing + new_size <= 0

\* What check_all_size_limits stores under config['name'].
size_check_entry(gb, existing, new_size) ==
    IF gb # None
    THEN check_size_limit(gb, existing, new_size)
    ELSE TRUE

\* Outcomes of paginating list_objects_v2: the listing completes with the
\* sizes adding up to `listed`, or raises.
ListingOutcomes ==
    {[err |-> "none", listed |-> s] : s \in ExistingSizes}
    \cup {[err |-> e, listed |-> 0] : e \in {"ClientError", "Other"}}

\* total_size returned by get_bucket_size when no exception escapes it.
get_bucket_size(t, o) ==
    IF client[t] = "None" THEN 0
    ELSE IF o.err = "none" THEN o.listed
    ELSE 0

\* dict.__setitem__
SetItem(d, k, v) == [x \in DOMAIN d \cup {k} |-> IF x = k THEN v ELSE d[x]]

check_size_skip ==
    /\ pc = "sizes"
    /\ ti <= Len(configs)
    /\ Skipped(configs[ti])
    /\ ti' = ti + 1
    /\ UNCHANGED <<pc, fi, cfgVars, clientVars, scanVars, sizeVars, upVars, preVars,
                   exit_code, bucketVars, faults>>

check_size_returns ==
    /\ pc = "sizes"
    /\ ti <= Len(configs)
    /\ ~Skipped(configs[ti])
    /\ \E o \in ListingOutcomes :
         /\ o.err # "Other"
         /\ o.err = "ClientError" => MayRaise
         /\ faults' = IF o.err = "none" THEN faults ELSE faults + 1
         /\ existing_size' = get_bucket_size(configs[ti], o)
         /\ size_check_results' =
               SetItem(size_check_results, configs[ti],
                       size_check_entry(max_size_gb[configs[ti]],
                                        get_bucket_size(configs[ti], o),
                                        new_files_size))
         /\ size_query_failed' =
               size_query_failed \cup (IF o.err = "none" THEN {} ELSE {configs[ti]})
    /\ size_queries' = [size_queries EXCEPT ![configs[ti]] =
                           @ + (IF client[configs[ti]] = "None" THEN 0 ELSE 1)]
    /\ cap_evals' = [cap_evals EXCEPT ![configs[ti]] = @ + 1]
    /\ ti' = ti + 1
    /\ UNCHANGED <<pc, fi, cfgVars, clientVars, scanVars, upVars, preVars,
                   exit_code, bucketVars>>

\* The listing raised something that is not a ClientError.
check_size_escapes ==
    /\ pc = "sizes"
    /\ ti <= Len(configs)
    /\ ~Skipped(configs[ti])
    /\ client[configs[ti]] # "None"
    /\ MayRaise
    /\ Raised
    /\ size_queries' = [size_queries EXCEPT ![configs[ti]] = @ + 1]
    /\ size_query_failed' = size_query_failed \cup {configs[ti]}
    /\ Crash
    /\ UNCHANGED <<cfgVars, clientVars, scanVars, existing_size, size_check_results,
                   cap_evals, upVars, preVars, bucketVars>>

check_all_size_limits ==
    \/ check_size_skip
    \/ check_size_returns
    \/ check_size_escapes

\* any(size_check_results.values())
AnyPassed(d) == \E k \in DOMAIN d : d[k]

\* Mutant of Proceeds: the run goes on whatever the size checks said.
Proceeds_always(d) == TRUE

\* `if not any(...): exit(1)`, else on to upload_all_files.
Proceeds(d) == AnyPassed(d)

size_checks_done ==
    /\ pc = "sizes"
    /\ ti = Len(configs) + 1
    /\ existing_size' = 0
    /\ IF Proceeds(size_check_results)
       THEN /\ pc' = "upload"
            /\ ti' = 1
            /\ fi' = 1
            /\ UNCHANGED exit_code
       ELSE /\ pc' = "exited"
            /\ exit_code' = exit_status("no_provider")
            /\ UNCHANGED <<ti, fi>>
    /\ UNCHANGED <<cfgVars, clientVars, scanVars, size_check_results, size_queries, size_query_failed,
                   cap_evals, upVars, preVars, bucketVars, faults>>

----------------------------------------------------------------------------
(* upload_all_files and upload_file_to_cloud.                              *)

\* size_check_results.get(config['name'], False)
size_passed(t) ==
    IF t \in DOMAIN size_check_results THEN size_check_results[t] ELSE FALSE

\* upload_file_to_cloud returns False before calling the client.
RefusedBeforeCall(t) == client[t] = "None" \/ ~size_passed(t)

\* Mutant of record_outcome: a success is appended twice.
record_outcome_twice(res, t, item_name, success) ==
    IF success THEN [res EXCEPT ![t] = Append(Append(@, item_name), item_name)] ELSE res

\* Mutant of record_outcome: the item is appended whatever the outcome.
record_outcome_always(res, t, item_name, success) ==
    [res EXCEPT ![t] = Append(@, item_name)]

\* Mutant of record_outcome: a success is put at the front of the entry.
record_outcome_prepend(res, t, item_name, success) ==
    IF success THEN [res EXCEPT ![t] = <<item_name>> \o @] ELSE res

\* `if success: results[config['name']].append(item_name)`
record_outcome(res, t, item_name, success) ==
    IF success THEN [res EXCEPT ![t] = Append(@, item_name)] ELSE res

\* The two for-loops of upload_all_files: next target, next item, or return.
NextPair ==
    IF ti < Len(configs)
    THEN /\ ti' = ti + 1
         /\ UNCHANGED <<pc, fi>>
    ELSE IF fi < Len(files_to_upload)
    THEN /\ ti' = 1
         /\ fi' = fi + 1
         /\ UNCHANGED pc
    ELSE /\ ti' = 1
         /\ fi' = 1
         /\ pc' = "summary"

upload_skip ==
    /\ pc = "upload"
    /\ Skipped(configs[ti])
    /\ NextPair
    /\ UNCHANGED <<cfgVars, clientVars, scanVars, sizeVars, upVars, preVars,
                   exit_code, bucketVars, faults>>

\* Mutant of upload_refused: the refused target is evaluated again for the
\* file at hand and admitted from then on.
upload_refused_reevaluates ==
    /\ pc = "upload"
    /\ ~Skipped(configs[ti])
    /\ RefusedBeforeCall(configs[ti])
    /\ results' = record_outcome(results, configs[ti], files_to_upload[fi].name, FALSE)
    /\ size_check_results' = SetItem(size_check_results, configs[ti], TRUE)
    /\ NextPair
    /\ UNCHANGED <<cfgVars, clientVars, scanVars, existing_size, size_queries,
                   size_query_failed, cap_evals, upload_calls, upload_log, upload_ok,
                   upload_failed, preVars, exit_code, bucketVars, faults>>

upload_refused ==
    /\ pc = "upload"
    /\ ~Skipped(configs[ti])
    /\ RefusedBeforeCall(configs[ti])
    /\ results' = record_outcome(results, configs[ti], files_to_upload[fi].name, FALSE)
    /\ NextPair
    /\ UNCHANGED <<cfgVars, clientVars, scanVars, sizeVars, upload_calls, upload_log, upload_ok,
                   upload_failed, preVars, exit_code, bucketVars, faults>>

upload_succeeds ==
    /\ pc = "upload"
    /\ ~Skipped(configs[ti])
    /\ ~RefusedBeforeCall(configs[ti])
    /\ upload_calls' = [upload_calls EXCEPT
                          ![<<configs[ti], files_to_upload[fi].name>>] = @ + 1]
    /\ upload_log' = Append(upload_log, <<configs[ti], files_to_upload[fi].name>>)
    /\ upload_ok' = upload_ok \cup {<<configs[ti], files_to_upload[fi].name>>}
    /\ results' = record_outcome(results, configs[ti], files_to_upload[fi].name, TRUE)
    /\ NextPair
    /\ UNCHANGED <<cfgVars, clientVars, scanVars, sizeVars, upload_failed, preVars,
                   exit_code, bucketVars, faults>>

\* upload_file raised ClientError: caught, upload_file_to_cloud returns False.
upload_fails ==
    /\ pc = "upload"
    /\ ~Skipped(configs[ti])
    /\ ~RefusedBeforeCall(configs[ti])
    /\ MayRaise
    /\ Raised
    /\ upload_calls' = [upload_calls EXCEPT
                          ![<<configs[ti], files_to_upload[fi].name>>] = @ + 1]
    /\ upload_log' = Append(upload_log, <<configs[ti], files_to_upload[fi].name>>)
    /\ upload_failed' = upload_failed \cup {<<configs[ti], files_to_upload[fi].name>>}
    /\ results' = record_outcome(results, configs[ti], files_to_upload[fi].name, FALSE)
    /\ NextPair
    /\ UNCHANGED <<cfgVars, clientVars, scanVars, sizeVars, upload_ok, preVars,
                   exit_code, bucketVars>>

\* upload_file raised something that is not a ClientError (boto3 reports a
\* failed transfer as S3UploadFailedError, a connection failure as a
\* BotoCoreError, an unreadable file as OSError): nothing catches it.
upload_escapes ==
    /\ pc = "upload"
    /\ ~Skipped(configs[ti])
    /\ ~RefusedBeforeCall(configs[ti])
    /\ MayRaise
    /\ Raised
    /\ upload_calls' = [upload_calls EXCEPT
                          ![<<configs[ti], files_to_upload[fi].name>>] = @ + 1]
    /\ upload_log' = Append(upload_log, <<configs[ti], files_to_upload[fi].name>>)
    /\ upload_failed' = upload_failed \cup {<<configs[ti], files_to_upload[fi].name>>}
    /\ Crash
    /\ UNCHANGED <<cfgVars, clientVars, scanVars, sizeVars, results, upload_ok, preVars,
                   bucketVars>>

\* Mutant of upload_stalls: the call is left running in a context of its
\* own and the loops go on to the next pair.
upload_stalls_in_background ==
    /\ pc = "upload"
    /\ ~Skipped(configs[ti])
    /\ ~RefusedBeforeCall(configs[ti])
    /\ MayRaise
    /\ Raised
    /\ upload_calls' = [upload_calls EXCEPT
                          ![<<configs[ti], files_to_upload[fi].name>>] = @ + 1]
    /\ upload_log' = Append(upload_log, <<configs[ti], files_to_upload[fi].name>>)
    /\ NextPair
    /\ UNCHANGED exit_code
    /\ UNCHANGED <<cfgVars, clientVars, scanVars, sizeVars, results, upload_ok,
                   upload_failed, preVars, bucketVars>>

\* upload_file has been called and has not returned: the call blocks the one
\* thread that runs the loops of upload_all_files, which takes no further
\* step while the call is in flight.
upload_stalls ==
    /\ pc = "upload"
    /\ ~Skipped(configs[ti])
    /\ ~RefusedBeforeCall(configs[ti])
    /\ MayRaise
    /\ Raised
    /\ upload_calls' = [upload_calls EXCEPT
                          ![<<configs[ti], files_to_upload[fi].name>>] = @ + 1]
    /\ upload_log' = Append(upload_log, <<configs[ti], files_to_upload[fi].name>>)
    /\ pc' = "stalled"
    /\ UNCHANGED <<ti, fi, exit_code>>
    /\ UNCHANGED <<cfgVars, clientVars, scanVars, sizeVars, results, upload_ok,
                   upload_failed, preVars, bucketVars>>

upload_all_files ==
    \/ upload_skip
    \/ upload_refused
    \/ upload_succeeds
    \/ upload_fails
    \/ upload_escapes
    \/ upload_stalls

----------------------------------------------------------------------------
(* print_summary: the summary loop (final bucket size of every target that *)
(* received files), then the presigned-url loop with                       *)
(* generate_presigned_urls.                                                *)

NextSummary ==
    IF ti < Len(configs)
    THEN /\ ti' = ti + 1
         /\ UNCHANGED <<pc, fi>>
    ELSE /\ ti' = 1
         /\ fi' = 1
         /\ pc' = "urls"

\* `if not config['enabled']: continue` and `if uploaded_files:`
Reported(t) == enabled[t] /\ results[t] # <<>>

summary_skip ==
    /\ pc = "summary"
    /\ ~Reported(configs[ti])
    /\ NextSummary
    /\ UNCHANGED <<cfgVars, clientVars, scanVars, sizeVars, upVars, preVars,
                   exit_code, bucketVars, faults>>

\* get_bucket_size returned (its result is only printed).
summary_size_returns ==
    /\ pc = "summary"
    /\ Reported(configs[ti])
    /\ \E o \in ListingOutcomes :
         /\ o.err # "Other"
         /\ o.err = "ClientError" => MayRaise
         /\ faults' = IF o.err = "none" THEN faults ELSE faults + 1
    /\ NextSummary
    /\ UNCHANGED <<cfgVars, clientVars, scanVars, sizeVars, upVars, preVars,
                   exit_code, bucketVars>>

summary_size_escapes ==
    /\ pc = "summary"
    /\ Reported(configs[ti])
    /\ client[configs[ti]] # "None"
    /\ MayRaise
    /\ Raised
    /\ Crash
    /\ UNCHANGED <<cfgVars, clientVars, scanVars, sizeVars, upVars, preVars, bucketVars>>

\* The file names generate_presigned_urls iterates over for target t:
\* nothing without a client, else the uploaded_files print_summary passes.
file_names(t) ==
    IF ~Reported(t) THEN <<>>
    ELSE IF client[t] = "None" THEN <<>>
    ELSE results[t]

\* The for-loop over configs of the url section; after the last target the
\* script ends.
NextUrlTarget ==
    IF ti < Len(configs)
    THEN /\ ti' = ti + 1
         /\ fi' = 1
         /\ UNCHANGED pc
    ELSE /\ pc' = "done"
         /\ UNCHANGED <<ti, fi>>

\* Next file name of generate_presigned_urls, or its return: print_summary
\* prints the returned list `acc`.
NextLink(acc) ==
    IF fi < Len(file_names(configs[ti]))
    THEN /\ fi' = fi + 1
         /\ presigned_urls' = acc
         /\ UNCHANGED <<pc, ti, links>>
    ELSE /\ links' = [links EXCEPT ![configs[ti]] = acc]
         /\ presigned_urls' = <<>>
         /\ NextUrlTarget

\* Mutant of collect_url: the file is listed although its presign failed.
collect_url_always(acc, file_name, ok) == Append(acc, file_name)

\* presigned_urls.append((file_name, url)) on success, nothing on ClientError.
collect_url(acc, file_name, ok) ==
    IF ok THEN Append(acc, file_name) ELSE acc

publish_skip ==
    /\ pc = "urls"
    /\ file_names(configs[ti]) = <<>>
    /\ NextUrlTarget
    /\ UNCHANGED <<cfgVars, clientVars, scanVars, sizeVars, upVars, preVars,
                   exit_code, bucketVars, faults>>

presign_succeeds ==
    /\ pc = "urls"
    /\ file_names(configs[ti]) # <<>>
    /\ presign_calls' = [presign_calls EXCEPT
                           ![<<configs[ti], file_names(configs[ti])[fi]>>] = @ + 1]
    /\ presign_ok' = presign_ok \cup {<<configs[ti], file_names(configs[ti])[fi]>>}
    /\ NextLink(collect_url(presigned_urls, file_names(configs[ti])[fi], TRUE))
    /\ UNCHANGED <<cfgVars, clientVars, scanVars, sizeVars, upVars, presign_failed,
                   exit_code, bucketVars, faults>>

\* generate_presigned_url raised ClientError: logged, the file is left out.
presign_fails ==
    /\ pc = "urls"
    /\ file_names(configs[ti]) # <<>>
    /\ MayRaise
    /\ Raised
    /\ presign_calls' = [presign_calls EXCEPT
                           ![<<configs[ti], file_names(configs[ti])[fi]>>] = @ + 1]
    /\ presign_failed' = presign_failed \cup {<<configs[ti], file_names(configs[ti])[fi]>>}
    /\ NextLink(collect_url(presigned_urls, file_names(configs[ti])[fi], FALSE))
    /\ UNCHANGED <<cfgVars, clientVars, scanVars, sizeVars, upVars, presign_ok,
                   exit_code, bucketVars>>

\* generate_presigned_url raised something that is not a ClientError
\* (botocore's NoCredentialsError, ParamValidationError, ...): the list
\* built so far is lost with the frame and nothing of it is printed.
presign_escapes ==
    /\ pc = "urls"
    /\ file_names(configs[ti]) # <<>>
    /\ MayRaise
    /\ Raised
    /\ presign_calls' = [presign_calls EXCEPT
                           ![<<configs[ti], file_names(configs[ti])[fi]>>] = @ + 1]
    /\ presign_failed' = presign_failed \cup {<<configs[ti], file_names(configs[ti])[fi]>>}
    /\ presigned_urls' = <<>>
    /\ Crash
    /\ UNCHANGED <<cfgVars, clientVars, scanVars, sizeVars, upVars, links, presign_ok,
                   bucketVars>>

print_summary ==
    \/ summary_skip
    \/ summary_size_returns
    \/ summary_size_escapes
    \/ publish_skip
    \/ presign_succeeds
    \/ presign_fails
    \/ presign_escapes

----------------------------------------------------------------------------

Next ==
    \/ initialize_all_clients
    \/ check_all_buckets
    \/ get_local_files_size
    \/ check_all_size_limits
    \/ size_checks_done
    \/ upload_all_files
    \/ print_summary

Spec == Init /\ [][Next]_vars

----------------------------------------------------------------------------
(* Properties.                                                             *)

Range(s) == {s[i] : i \in DOMAIN s}

Occurrences(s, x) == Cardinality({i \in DOMAIN s : s[i] = x})

IsPrefix(s, r) == Len(s) <= Len(r) /\ SubSeq(r, 1, Len(s)) = s

Idx(t) == CHOOSE i \in 1..Len(configs) : configs[i] = t

ItemNames == {files_to_upload[i].name : i \in DOMAIN files_to_upload}

\* The target is enabled and has a live client.
Live(t) == enabled[t] /\ client[t] = "live"

\* The capacity check stored a verdict for the target.
Checked(t) == t \in DOMAIN size_check_results

Admitted(t) == Checked(t) /\ size_check_results[t]

Rejected(t) == Checked(t) /\ ~size_check_results[t]

RunEnded == pc \in {"done", "exited", "crashed"}

\* upload_all_files has returned.
UploadsReturned == pc \in {"summary", "urls", "done"}

NoUploadCalls == \A p \in Pairs : upload_calls[p] = 0

\* What C1 says of every state of a run.
AdmitsIffWithinQuota ==
    (pc = "sizes" /\ ti > 1) =>
        LET t == configs[ti - 1] IN
        (Checked(t) /\ max_size_gb[t] # None) =>
            (size_check_results[t]
                <=> existing_size + SumSizes(files_to_upload) <= max_size_gb[t][1] * GiB)

\* C1: for a target with a configured quota, the verdict check_all_size_limits
\* stores (check_size_limit's) is "admitted" exactly when the existing size
\* plus the sum of the batch's file sizes is at most max_size_gb * 1024**3
\* bytes; only the batch total enters, not how it splits into files.
C1_AdmitsIffWithinQuota == []AdmitsIffWithinQuota

\* A two-file batch that fills the quota exactly has been admitted.
C1_Witness ==
    /\ pc = "sizes"
    /\ ti > 1
    /\ Checked(configs[ti - 1])
    /\ max_size_gb[configs[ti - 1]] # None
    /\ Len(files_to_upload) = 2
    /\ existing_size > 0
    /\ existing_size + new_files_size = GiB
    /\ size_check_results[configs[ti - 1]]

\* What C2 says of every state of a run.
NoQuotaAlwaysAdmitted ==
    \A t \in TargetNames :
        max_size_gb[t] = None =>
            /\ Checked(t) => size_check_results[t]
            /\ (Live(t) /\ pc \in {"upload", "summary", "urls", "done"}) => Admitted(t)

\* C2: a target without a quota (max_size_gb is None) that went through the
\* capacity check is admitted, whatever the batch size (0 included) and the
\* existing size; once the checks are over every live target without a quota
\* has been admitted.
C2_NoQuotaAlwaysAdmitted == []NoQuotaAlwaysAdmitted

\* A target without a quota was admitted with a batch of 0 bytes over a
\* bucket that already holds data.
C2_Witness ==
    /\ pc = "sizes"
    /\ ti > 1
    /\ max_size_gb[configs[ti - 1]] = None
    /\ Admitted(configs[ti - 1])
    /\ new_files_size = 0
    /\ existing_size > 0

\* C3 (as claimed): once the run has ended with some upload having failed,
\* every (item, admitted live target) pair has been attempted.
C3_FailureNeverPreventsOtherPairs ==
    (RunEnded /\ upload_failed # {}) =>
        \A t \in TargetNames : \A n \in ItemNames :
            (Live(t) /\ Admitted(t)) => upload_calls[<<t, n>>] >= 1

\* What C4 says of every state of a run.
OneOutcomePerPair ==
    UploadsReturned =>
        \A t \in TargetNames : \A n \in ItemNames :
            (Live(t) /\ Admitted(t)) =>
                /\ upload_calls[<<t, n>>] = 1
                /\ (<<t, n>> \in upload_ok) # (<<t, n>> \in upload_failed)
                /\ Occurrences(results[t], n) <= 1
                /\ Occurrences(results[t], n) = 1 <=> <<t, n>> \in upload_ok

\* C4: when upload_all_files has returned, every (item, target) pair whose
\* target was admitted and has a live client saw exactly one upload_file
\* call, has exactly one outcome (returned or raised), and the item name is
\* in the target's ledger entry at most once.
C4_OneOutcomePerPair == []OneOutcomePerPair

\* upload_all_files returned after one upload succeeded and another failed.
C4_Witness ==
    /\ pc = "summary"
    /\ upload_ok # {}
    /\ upload_failed # {}

LedgerStep ==
    \A t \in TargetNames :
        /\ IsPrefix(results[t], results'[t])
        /\ \A n \in AllNames : n \in Range(results'[t]) <=> <<t, n>> \in upload_ok'

\* C5: every step leaves each target's ledger entry a prefix of its new
\* value (entries are only appended, never removed or changed), and after
\* every step an item name is in a target's entry exactly when upload_file
\* returned for that item and target.
C5_LedgerAppendOnlySuccesses == [][LedgerStep]_vars

\* A ledger entry exists while another upload has failed.
C5_Witness ==
    /\ \E t \in TargetNames : results[t] # <<>>
    /\ upload_failed # {}

\* What C6 says of every state of a run.
TerminalConditionStopsRun ==
    (ScannedFiles = <<>> \/ \A t \in TargetNames : ~(Live(t) /\ Admitted(t))) =>
        /\ NoUploadCalls
        /\ \A t \in TargetNames : results[t] = <<>>
        /\ pc \notin {"upload", "summary", "urls", "done"}

\* C6: while the scan finds no file, or no target is enabled, live and
\* admitted, no upload_file call has been made, the ledger is empty and the
\* run is not in (nor past) upload_all_files.
C6_TerminalConditionStopsRun == []TerminalConditionStopsRun

\* The run exited because the only checked targets failed the capacity check.
C6_Witness ==
    /\ pc = "exited"
    /\ exit_code = 1
    /\ \E t \in TargetNames : Rejected(t)

\* C7 (as claimed): in a run that reached the upload loop and has ended, with
\* target A rejected by the capacity check and target B admitted, no upload
\* call went to A, A's ledger entry and link list are empty, and every item
\* was attempted on B.
C7_RejectedSkippedOthersProceed ==
    (RunEnded /\ ~NoUploadCalls) =>
        \A a \in TargetNames : \A b \in TargetNames :
            (Live(a) /\ Rejected(a) /\ Live(b) /\ Admitted(b)) =>
                /\ \A n \in AllNames : upload_calls[<<a, n>>] = 0
                /\ results[a] = <<>>
                /\ links[a] = <<>>
                /\ \A n \in ItemNames : upload_calls[<<b, n>>] >= 1

\* What C8 says of every state of a run.
UnavailableTargetUntouched ==
    \A t \in TargetNames :
        (~enabled[t] \/ client[t] = "None") =>
            /\ size_queries[t] = 0
            /\ cap_evals[t] = 0
            /\ ~Checked(t)
            /\ \A n \in AllNames : upload_calls[<<t, n>>] = 0
            /\ results[t] = <<>>
            /\ links[t] = <<>>

\* C8: for a target that is disabled or has no client, no bucket listing was
\* started, no capacity verdict was computed or stored, no upload_file call
\* was made and nothing is recorded under it.
C8_UnavailableTargetUntouched == []UnavailableTargetUntouched

\* A run finished with uploads, one enabled target having lost its client.
C8_Witness ==
    /\ pc = "done"
    /\ \E t \in TargetNames : enabled[t] /\ client[t] = "None"
    /\ \E t \in TargetNames : results[t] # <<>>

\* C9 (as claimed): once the run has ended, a file whose presign failed is
\* still in the target's ledger entry and not among its links, and a url was
\* requested for every file of every enabled target's ledger entry.
C9_PresignFailureOmitsOnlyThatFile ==
    RunEnded =>
        \A p \in presign_failed :
            /\ p[2] \in Range(results[p[1]])
            /\ p[2] \notin Range(links[p[1]])
            /\ \A t \in TargetNames : \A n \in Range(results[t]) :
                   enabled[t] => presign_calls[<<t, n>>] = 1

\* print_summary has printed target t's links.
Published(t) == pc = "done" \/ (pc = "urls" /\ ti > Idx(t))

SucceededIn(t) == LET ok(n) == <<t, n>> \in presign_ok IN SelectSeq(results[t], ok)

\* What C10 says of every state of a run.
LinksAreLedgerSuccesses ==
    \A t \in TargetNames :
        /\ \A n \in AllNames :
               /\ presign_calls[<<t, n>>] <= 1
               /\ presign_calls[<<t, n>>] = 1 => n \in Range(results[t])
        /\ Range(links[t]) \subseteq Range(results[t])
        /\ Published(t) =>
               /\ \A n \in Range(results[t]) : presign_calls[<<t, n>>] = 1
               /\ links[t] = SucceededIn(t)

\* C10: urls are requested only for names of the target's ledger entry, at
\* most once each; every printed link is for a name of the entry; and once
\* a target's links are printed, one url was requested per name of its entry
\* and the links are exactly the names whose presign succeeded, in ledger
\* order, once each.
C10_LinksAreLedgerSuccesses == []LinksAreLedgerSuccesses

\* The run finished with one link printed and another file's presign failed.
C10_Witness ==
    /\ pc = "done"
    /\ presign_failed # {}
    /\ \E t \in TargetNames : links[t] # <<>>

----------------------------------------------------------------------------
(* Exit status of the run (C11).                                           *)

ExitStatusByCause ==
    /\ pc = "exited" =>
           /\ exit_code = 0 <=> files_to_upload = <<>>
           /\ exit_code = 1 <=> (files_to_upload # <<>> /\ ~AnyPassed(size_check_results))
           /\ exit_code \in {0, 1}
    /\ (/\ pc \in {"exited", "upload", "summary", "urls", "done"}
        /\ files_to_upload # <<>>
        /\ ~AnyPassed(size_check_results)) => (pc = "exited" /\ exit_code = 1)

----------------------------------------------------------------------------
(* Failures as data (C12).                                                 *)

\* C12 (as claimed): no failure of a client call ends the run with an
\* exception, and a run that has ended with at least one file and at least
\* one admitted target has returned from upload_all_files and print_summary.
C12_FailuresNeverEscape ==
    /\ pc # "crashed"
    /\ (RunEnded /\ files_to_upload # <<>> /\ AnyPassed(size_check_results)) =>
           pc = "done"

----------------------------------------------------------------------------
(* Targets whose bucket is missing (C13).                                  *)

\* C13 (as claimed): for a target whose bucket does not exist and could not
\* be created, no capacity verdict is computed and no upload_file call is
\* made.
C13_MissingBucketTargetSkipped ==
    \A t \in bucket_missing :
        /\ cap_evals[t] = 0
        /\ \A n \in AllNames : upload_calls[<<t, n>>] = 0

----------------------------------------------------------------------------
(* Client construction failures (C14).                                     *)

\* initialize_all_clients is past target t.
Initialised(t) == pc # "init" \/ ti > Idx(t)

\* What C14 says of every state of a run.
FailedClientStaysCleared ==
    /\ \A t \in init_failed : client[t] = "None"
    /\ \A t \in TargetNames :
           /\ init_calls[t] <= 1
           /\ (Initialised(t) /\ enabled[t]) =>
                  /\ init_calls[t] = 1
                  /\ t \notin init_failed => client[t] = "live"

\* C14: a target whose boto3.client call raised has no client handle, in
\* that state and in every later one; boto3.client is called at most once per
\* target; and once initialize_all_clients is past a target that is enabled,
\* the call was made for it and, unless that very call raised, its handle is
\* live, whatever happened to the other targets.
C14_FailedClientStaysCleared == []FailedClientStaysCleared

\* The run finished with uploads to a target that was initialised after
\* another target's client construction had failed.
C14_Witness ==
    /\ pc = "done"
    /\ \E f \in init_failed : \E t \in TargetNames :
           /\ Idx(f) < Idx(t)
           /\ client[t] = "live"
           /\ results[t] # <<>>

----------------------------------------------------------------------------
(* A failed listing of the bucket (C15).                                   *)

\* C15 (as claimed): a target whose existing-size listing raised still has a
\* capacity verdict, computed with an occupied size of 0: it is admitted
\* exactly when it has no quota or the batch alone fits the quota.
C15_FailedSizeQueryCountsAsEmpty ==
    \A t \in size_query_failed :
        /\ Checked(t)
        /\ size_check_results[t] <=>
               (max_size_gb[t] = None
                \/ new_files_size <= max_size_bytes(max_size_gb[t]))

----------------------------------------------------------------------------
(* Order of the uploads (C16).                                             *)

\* The names the folder listing gave, and the names of files_to_upload, in
\* order (names of one folder are distinct).
FolderNames == [i \in DOMAIN folder |-> folder[i].name]

FileNames == [i \in DOMAIN files_to_upload |-> files_to_upload[i].name]

\* Every (target, item) pair in the order the loops of upload_all_files visit
\* them: item by item, and for one item target by target.
LoopOrder ==
    [k \in 1..(Len(files_to_upload) * Len(configs)) |->
        <<configs[((k - 1) % Len(configs)) + 1],
          files_to_upload[((k - 1) \div Len(configs)) + 1].name>>]

\* s can be got from t by leaving elements out.
RECURSIVE IsSubsequence(_, _)
IsSubsequence(s, t) ==
    IF s = <<>> THEN TRUE
    ELSE IF t = <<>> THEN FALSE
    ELSE IF s[1] = t[1] THEN IsSubsequence(Tail(s), Tail(t))
    ELSE IsSubsequence(s, Tail(t))

\* What C16 says of every state of a run.
UploadsFollowScanOrder ==
    /\ IsSubsequence(FileNames, FolderNames)
    /\ \A t \in TargetNames : IsSubsequence(results[t], FileNames)
    /\ IsSubsequence(upload_log, LoopOrder)

\* C16: files_to_upload keeps the order of the folder listing; every
\* target's ledger entry is a subsequence of files_to_upload (its items are
\* in enumeration order, none twice); and the sequence of upload_file calls
\* is a subsequence of the loop order: item by item in enumeration order and,
\* for one item, target by target in the order of configs.
C16_UploadsFollowScanOrder == []UploadsFollowScanOrder

\* The run finished with two items in one target's ledger entry and an item
\* in another target's.
C16_Witness ==
    /\ pc = "done"
    /\ \E t \in TargetNames : \E u \in TargetNames :
           /\ t # u
           /\ Len(results[t]) = 2
           /\ results[u] # <<>>

----------------------------------------------------------------------------
(* Scheduling of the uploads (C17).                                        *)

\* The pair the loops of upload_all_files stand at.
CurrentPair == <<configs[ti], files_to_upload[fi].name>>

\* upload_file calls that have neither returned nor raised.
InFlight == Range(upload_log) \ (upload_ok \cup upload_failed)

\* The first k pairs of the loop order.
FirstPairs(k) == {LoopOrder[j] : j \in 1..k}

\* Number of pairs the loops of upload_all_files are past.
PairsDone == (fi - 1) * Len(configs) + (ti - 1)

\* C17 (as claimed): while an upload_file call for an item is stalled, the
\* upload of that item has been started on every other target that is live
\* and admitted.
C17_StalledUploadDelaysNoTarget ==
    pc = "stalled" =>
        \A u \in TargetNames :
            (Live(u) /\ Admitted(u)) => upload_calls[<<u, CurrentPair[2]>>] >= 1

\* What C17 says of every state of a run.
UploadsAreSequential ==
    /\ InFlight # {} => (pc = "stalled" /\ InFlight = {CurrentPair})
    /\ pc = "upload" => Range(upload_log) \subseteq FirstPairs(PairsDone)
    /\ pc = "stalled" =>
           /\ Range(upload_log) \subseteq FirstPairs(PairsDone + 1)
           /\ upload_log[Len(upload_log)] = CurrentPair
    /\ \A p \in Pairs : upload_calls[p] >= 1 <=> p \in Range(upload_log)

\* C17 (amended): the uploads run one after another in one execution
\* context.  At most one upload_file call is in flight, and only while the
\* loops stand at its pair; every other call made so far is for a pair
\* earlier in (item, target) order and has returned or raised; and no call
\* has been made for the pair the loops stand at before they handle it, nor
\* for any later pair.
C17_UploadsAreSequential == []UploadsAreSequential

\* An upload to one target is stalled while a later target, live and
\* admitted, has not been sent the item.
C17_Witness ==
    /\ pc = "stalled"
    /\ \E u \in TargetNames :
           /\ Live(u) /\ Admitted(u)
           /\ Idx(u) > ti
           /\ upload_calls[<<u, CurrentPair[2]>>] = 0

----------------------------------------------------------------------------
(* ProgressTracker: one instance, built by upload_file_to_cloud for one    *)
(* upload and passed to upload_file as Callback.  boto3 calls it from the  *)
(* worker threads of the transfer (TRANSFER_CONFIG: use_threads,           *)
(* max_concurrency), with no lock in the class, so the statements of two   *)
(* __call__ invocations interleave: the load and the store of `+=`, the    *)
(* test of last_print_time, the reads of self.bytes_transferred for        *)
(* remaining_bytes and its guard, for the ETA's division and for the       *)
(* printed line, and the final assignment of last_print_time are separate  *)
(* steps.  Times are in milliseconds.                                      *)

\* The 1.0 of `current_time - self.last_print_time >= 1.0`.
Second == 1000

\* The 0.001 of `max(current_time - self.start_time, 0.001)`.
MinElapsed == 1

\* Bounds of the tracker model.
MaxCalls == 2
MaxSeconds == 1

\* os.path.getsize of the file, and a total no file size can be.
TotalChoices == {-1, 0, 2}

NewBytesChoices == {0, 1}

\* What only the multi-cloud uploader's __main__ uses, at rest.
RestOff ==
    /\ enabled = [t \in TargetNames |-> FALSE]
    /\ max_size_gb = [t \in TargetNames |-> None]
    /\ client = [t \in TargetNames |-> "None"]
    /\ init_calls = [t \in TargetNames |-> 0]
    /\ init_failed = {}
    /\ ti = 1
    /\ size_check_results = <<>>
    /\ results = [t \in TargetNames |-> <<>>]
    /\ presigned_urls = <<>>
    /\ links = [t \in TargetNames |-> <<>>]
    /\ bucket_ok = [t \in TargetNames |-> "unchecked"]
    /\ bucket_missing = {}
    /\ size_queries = [t \in TargetNames |-> 0]
    /\ size_query_failed = {}
    /\ cap_evals = [t \in TargetNames |-> 0]
    /\ upload_calls = [p \in Pairs |-> 0]
    /\ upload_log = <<>>
    /\ upload_ok = {}
    /\ upload_failed = {}
    /\ presign_calls = [p \in Pairs |-> 0]
    /\ presign_ok = {}
    /\ presign_failed = {}
    /\ faults = 0

\* __main__ is not running.
RunOff ==
    /\ RestOff
    /\ folder_exists = FALSE
    /\ folder = <<>>
    /\ pc = "off"
    /\ fi = 1
    /\ files_to_upload = <<>>
    /\ new_files_size = 0
    /\ existing_size = 0
    /\ exit_code = -1

mainVars == <<enabled, max_size_gb, client, init_calls, init_failed, folder_exists,
             folder, pc, ti, fi, files_to_upload, new_files_size, existing_size,
             size_check_results, results, presigned_urls, links, exit_code,
             bucket_ok, bucket_missing, size_queries, size_query_failed, cap_evals,
             upload_calls, upload_log, upload_ok, upload_failed, presign_calls,
             presign_ok, presign_failed, faults>>

runVars == <<mainVars, sideVars>>

\* ProgressTracker.__init__
ProgressTracker_init ==
    /\ tracker = "live"
    /\ total_bytes \in TotalChoices
    /\ bytes_transferred = 0
    /\ clock = 0
    /\ start_time = clock
    /\ last_print_time = start_time
    /\ wpc = [w \in Workers |-> "idle"]
    /\ new_bytes = [w \in Workers |-> 0]
    /\ loaded = [w \in Workers |-> 0]
    /\ current_time = [w \in Workers |-> 0]
    /\ remaining_bytes = [w \in Workers |-> 0]
    /\ estimated_remaining_time = [w \in Workers |-> Unknown]
    /\ raised = {}
    /\ printed = <<>>
    /\ calls = 0
    /\ passed = 0

TrackerInit == RunOff /\ SideOff /\ ProgressTracker_init

Max(a, b) == IF a >= b THEN a ELSE b

\* int(a / b) for b > 0: the quotient rounded toward zero.
TruncDiv(a, b) == IF a >= 0 THEN a \div b ELSE -((-a) \div b)

\* `if current_time - self.last_print_time >= 1.0`
Due(cur, last) == cur - last >= Second

\* max(current_time - self.start_time, 0.001)
elapsed_time(cur, start) == Max(cur - start, MinElapsed)

\* `if self.bytes_transferred > 0`
eta_known(b) == b > 0

\* Python's float is the IEEE-754 double: a significand of 53 bits, 52 of
\* them after the leading one.
MantissaBits == 52

\* `remaining_bytes / (self.bytes_transferred / elapsed_time)` is two
\* divisions of doubles, each rounded to the nearest double.  When the exact
\* quotient is a whole number q of seconds, the computed one is q or the
\* double just under it, and int() then gives q - 1.  It is the double under
\* q exactly when the inner quotient b / elapsed = n / d (in lowest terms)
\* is rounded up, by the part c = (d1 - rho) / d1 of a unit in its last
\* place, and c * q, taken with the significands of q and of n / d, is more
\* than half a unit in the last place under q (a quarter when q is a power
\* of two, where the doubles under q lie twice as close).  elapsed is in
\* milliseconds, on a clock whose seconds a double holds exactly.
falls_short(q, b, elapsed) ==
    LET RECURSIVE Gcd(_, _)
        Gcd(x, y) == IF y = 0 THEN x ELSE Gcd(y, x % y)
        \* x without its factors of two, and the number of those factors
        RECURSIVE OddPart(_)
        OddPart(x) == IF x % 2 = 0 THEN OddPart(x \div 2) ELSE x
        RECURSIVE TwoExponent(_)
        TwoExponent(x) == IF x % 2 = 0 THEN 1 + TwoExponent(x \div 2) ELSE 0
        \* the binary exponent of x / y > 0, the e with
        \* 2^e <= x / y < 2^(e + 1), and its significand x / y / 2^e as a
        \* fraction <<numerator, denominator>>
        RECURSIVE BinaryExponent(_, _)
        BinaryExponent(x, y) ==
            IF x >= 2 * y THEN BinaryExponent(x, 2 * y) + 1
            ELSE IF x < y THEN BinaryExponent(2 * x, y) - 1
            ELSE 0
        RECURSIVE Significand(_, _)
        Significand(x, y) ==
            IF x >= 2 * y THEN Significand(x, 2 * y)
            ELSE IF x < y THEN Significand(2 * x, y)
            ELSE <<x, y>>
        \* 2^k modulo m
        RECURSIVE Pow2Mod(_, _)
        Pow2Mod(k, m) == IF k = 0 THEN 1 % m ELSE (2 * Pow2Mod(k - 1, m)) % m
        g == Gcd(b * Second, elapsed)
        n == (b * Second) \div g
        d == elapsed \div g
        d1 == OddPart(d)
        shift == MantissaBits - BinaryExponent(n, d) - TwoExponent(d)
        rho == (n * Pow2Mod(shift, d1)) % d1
        speed == Significand(n, d)
        whole == Significand(q, 1)
        ulps == IF whole[1] = whole[2] THEN 4 ELSE 2
    IN  /\ 2 * rho > d1
        /\ ulps * (d1 - rho) * whole[1] * (speed[2] \div d1) > speed[1] * whole[2]

\* int(remaining_bytes / (self.bytes_transferred / elapsed_time)), in seconds,
\* with b the self.bytes_transferred the division reads.
estimated_seconds(remaining, b, elapsed) ==
    LET exact == TruncDiv(remaining * elapsed, b * Second)
        is_whole == (remaining * elapsed) % (b * Second) = 0
        q == IF exact >= 0 THEN exact ELSE -exact
    IN  IF is_whole /\ q > 0 /\ falls_short(q, b, elapsed)
        THEN IF exact > 0 THEN exact - 1 ELSE exact + 1
        ELSE exact

\* The printed line, with b the self.bytes_transferred that the percentage and
\* the f-string read and eta the estimated_remaining_time computed before;
\* percentage is the quotient bytes_transferred * 100 / total_bytes, kept as
\* <<numerator, denominator>>.
progress_line(total, b, cur, eta) ==
    [at |-> cur,
     bytes |-> b,
     percentage |-> <<b * 100, total>>,
     eta |-> eta]

\* Wall-clock time advances by half a second.
time_passes ==
    /\ tracker = "live"
    /\ clock + Second \div 2 <= MaxSeconds * Second
    /\ clock' = clock + Second \div 2
    /\ UNCHANGED <<tracker, total_bytes, bytes_transferred, start_time,
                   last_print_time, wpc, new_bytes, loaded, current_time,
                   remaining_bytes, estimated_remaining_time, raised,
                   printed, calls, passed, runVars>>

\* A worker enters __call__ and `+=` loads self.bytes_transferred.
call_loads ==
    /\ tracker = "live"
    /\ calls < MaxCalls
    /\ \E w \in Workers : \E n \in NewBytesChoices :
         /\ wpc[w] = "idle"
         /\ new_bytes' = [new_bytes EXCEPT ![w] = n]
         /\ passed' = passed + n
         /\ loaded' = [loaded EXCEPT ![w] = bytes_transferred]
         /\ wpc' = [wpc EXCEPT ![w] = "store"]
    /\ calls' = calls + 1
    /\ UNCHANGED <<tracker, total_bytes, bytes_transferred, start_time,
                   last_print_time, clock, current_time, remaining_bytes,
                   estimated_remaining_time, raised, printed, runVars>>

\* `+=` stores the sum; current_time = time.time()
call_stores ==
    /\ tracker = "live"
    /\ \E w \in Workers :
         /\ wpc[w] = "store"
         /\ bytes_transferred' = loaded[w] + new_bytes[w]
         /\ current_time' = [current_time EXCEPT ![w] = clock]
         /\ wpc' = [wpc EXCEPT ![w] = "test"]
    /\ UNCHANGED <<tracker, total_bytes, start_time, last_print_time, clock,
                   new_bytes, loaded, remaining_bytes, estimated_remaining_time,
                   raised, printed, calls, passed, runVars>>

\* Less than a second since last_print_time: __call__ returns.
call_returns ==
    /\ tracker = "live"
    /\ \E w \in Workers :
         /\ wpc[w] = "test"
         /\ ~Due(current_time[w], last_print_time)
         /\ wpc' = [wpc EXCEPT ![w] = "idle"]
    /\ UNCHANGED <<tracker, total_bytes, bytes_transferred, start_time,
                   last_print_time, clock, new_bytes, loaded, current_time,
                   remaining_bytes, estimated_remaining_time, raised,
                   printed, calls, passed, runVars>>

\* A second or more since last_print_time: a line is due, and
\* elapsed_time = max(current_time - self.start_time, 0.001) is computed from
\* values that no call changes.  The call of max() returns before
\* self.bytes_transferred is read.
call_elapses ==
    /\ tracker = "live"
    /\ \E w \in Workers :
         /\ wpc[w] = "test"
         /\ Due(current_time[w], last_print_time)
         /\ wpc' = [wpc EXCEPT ![w] = "measure"]
    /\ UNCHANGED <<tracker, total_bytes, bytes_transferred, start_time,
                   last_print_time, clock, new_bytes, loaded, current_time,
                   remaining_bytes, estimated_remaining_time, raised,
                   printed, calls, passed, runVars>>

\* remaining_bytes is computed from self.bytes_transferred and
\* `if self.bytes_transferred > 0` is tested; when it is false,
\* estimated_remaining_time = "Unknown".
call_measures ==
    /\ tracker = "live"
    /\ \E w \in Workers :
         /\ wpc[w] = "measure"
         /\ remaining_bytes' =
                [remaining_bytes EXCEPT ![w] = total_bytes - bytes_transferred]
         /\ IF eta_known(bytes_transferred)
            THEN /\ wpc' = [wpc EXCEPT ![w] = "estimate"]
                 /\ UNCHANGED estimated_remaining_time
            ELSE /\ wpc' = [wpc EXCEPT ![w] = "percentage"]
                 /\ estimated_remaining_time' =
                        [estimated_remaining_time EXCEPT ![w] = Unknown]
    /\ UNCHANGED <<tracker, total_bytes, bytes_transferred, start_time,
                   last_print_time, clock, new_bytes, loaded, current_time,
                   raised, printed, calls, passed, runVars>>

\* estimated_seconds divides remaining_bytes by the throughput of the
\* self.bytes_transferred it reads now, and estimated_remaining_time is
\* built from it.
call_estimates ==
    /\ tracker = "live"
    /\ \E w \in Workers :
         /\ wpc[w] = "estimate"
         /\ bytes_transferred # 0
         /\ estimated_remaining_time' =
                [estimated_remaining_time EXCEPT ![w] =
                    <<estimated_seconds(remaining_bytes[w], bytes_transferred,
                                        elapsed_time(current_time[w], start_time))>>]
         /\ wpc' = [wpc EXCEPT ![w] = "percentage"]
    /\ UNCHANGED <<tracker, total_bytes, bytes_transferred, start_time,
                   last_print_time, clock, new_bytes, loaded, current_time,
                   remaining_bytes, raised, printed, calls, passed, runVars>>

\* percentage is computed from self.bytes_transferred and the line is printed.
call_prints ==
    /\ tracker = "live"
    /\ \E w \in Workers :
         /\ wpc[w] = "percentage"
         /\ total_bytes # 0
         /\ printed' = Append(printed,
                              progress_line(total_bytes, bytes_transferred,
                                            current_time[w],
                                            estimated_remaining_time[w]))
         /\ wpc' = [wpc EXCEPT ![w] = "stamp"]
    /\ UNCHANGED <<tracker, total_bytes, bytes_transferred, start_time,
                   last_print_time, clock, new_bytes, loaded, current_time,
                   remaining_bytes, estimated_remaining_time, raised,
                   calls, passed, runVars>>

\* A division of the print branch raises ZeroDivisionError, the ETA's
\* (self.bytes_transferred / elapsed_time is 0) or the percentage's
\* (self.total_bytes is 0): the exception ends this __call__ and leaves the
\* tracker as it is, for the calls in progress and the later ones.
call_raises ==
    /\ tracker = "live"
    /\ \E w \in Workers :
         /\ \/ /\ wpc[w] = "estimate"
               /\ bytes_transferred = 0
               /\ raised' = raised \cup {"estimated_seconds"}
            \/ /\ wpc[w] = "percentage"
               /\ total_bytes = 0
               /\ raised' = raised \cup {"percentage"}
         /\ wpc' = [wpc EXCEPT ![w] = "idle"]
    /\ UNCHANGED <<tracker, total_bytes, bytes_transferred, start_time,
                   last_print_time, clock, new_bytes, loaded, current_time,
                   remaining_bytes, estimated_remaining_time, printed, calls,
                   passed, runVars>>

\* self.last_print_time = current_time, and __call__ returns.
call_stamps ==
    /\ tracker = "live"
    /\ \E w \in Workers :
         /\ wpc[w] = "stamp"
         /\ last_print_time' = current_time[w]
         /\ wpc' = [wpc EXCEPT ![w] = "idle"]
    /\ UNCHANGED <<tracker, total_bytes, bytes_transferred, start_time, clock,
                   new_bytes, loaded, current_time, remaining_bytes,
                   estimated_remaining_time, raised, printed, calls, passed,
                   runVars>>

ProgressTracker_call ==
    \/ call_loads
    \/ call_stores
    \/ call_returns
    \/ call_elapses
    \/ call_measures
    \/ call_estimates
    \/ call_prints
    \/ call_raises
    \/ call_stamps

TrackerNext ==
    \/ time_passes
    \/ ProgressTracker_call

TrackerSpec == TrackerInit /\ [][TrackerNext]_vars

----------------------------------------------------------------------------
(* Claims about ProgressTracker (C18, C19, C20), checked under TrackerSpec. *)

\* C18 (as claimed): every printed line that shows 0 transferred bytes has
\* the ETA "Unknown" (so no ETA, negative or not, is computed from zero
\* progress), and the ETA's division never raises ZeroDivisionError.
C18_ZeroBytesGivesUnknownEta ==
    /\ \A i \in DOMAIN printed : printed[i].bytes = 0 => printed[i].eta = Unknown
    /\ "estimated_seconds" \notin raised

\* C19 (as claimed): for a tracker built with a total of 0 or less, no
\* __call__ raises.
C19_NonPositiveTotalNeverFails ==
    total_bytes <= 0 => raised = {}

\* C20 (as claimed), for a file of positive size: every printed line comes at
\* least one second after the line before it, and the first one at least one
\* second after construction.
C20_AtMostOneLinePerSecond ==
    total_bytes > 0 =>
        \A i \in DOMAIN printed :
            printed[i].at - (IF i = 1 THEN start_time ELSE printed[i - 1].at) >= Second

----------------------------------------------------------------------------
(* One capacity decision per target, taken before the uploads (C21).       *)

\* The run is in upload_all_files or past it.
UploadsBegun == pc \in {"upload", "stalled", "summary", "urls", "done"}

C21_Step ==
    /\ \A t \in TargetNames : cap_evals'[t] <= 1
    /\ UploadsBegun' =>
           \A t \in TargetNames :
               IF enabled[t] /\ client'[t] = "live"
               THEN cap_evals'[t] = 1 /\ t \in DOMAIN size_check_results'
               ELSE cap_evals'[t] = 0 /\ t \notin DOMAIN size_check_results'
    /\ UploadsBegun => size_check_results' = size_check_results
    /\ upload_log' # upload_log =>
           /\ pc = "upload"
           /\ configs[ti] \in DOMAIN size_check_results
           /\ size_check_results[configs[ti]]

\* C21: after every step, no target has had more than one capacity
\* evaluation; once the run is in the upload loop every enabled target with a
\* client has had exactly one and has a stored verdict, and no other target
\* has any; upload_file calls are made in the upload loop only; no step
\* taken in or after the upload loop changes a stored verdict; and every step
\* that makes an upload_file call makes it for a target whose stored verdict
\* is "admitted".
C21_OneDecisionBeforeUploads == [][C21_Step]_vars

\* The upload loop is at its second item with one target admitted and
\* another rejected.
C21_Witness ==
    /\ pc = "upload"
    /\ fi = 2
    /\ \E a \in TargetNames : \E r \in TargetNames :
           Live(a) /\ Admitted(a) /\ Live(r) /\ Rejected(r)

-----------------------------------------------------------------------------
(* One paginated listing of a bucket: get_bucket_size of the uploader and   *)
(* list_files_in_bucket of the URL generator                                *)
(* (src/generate_signed_url_multi_cloud_s3.py).  Each iteration of          *)
(* `for page in pages` fetches one page of list_objects_v2, and each fetch  *)
(* returns the page, raises ClientError, or raises another exception.       *)

\* Bounds of the listing model.
MaxObjects == 3
PageSize == 2

ObjectSizes == {1, 2}

ErrorCodes == {"NoSuchBucket", "AccessDenied"}

\* The buckets listed: up to MaxObjects objects, keyed in listing order.
BucketListings ==
    UNION {{[i \in 1..n |-> [Key |-> i, Size |-> s[i]]] : s \in [1..n -> ObjectSizes]}
           : n \in 0..MaxObjects}

\* Number of pages of a listing; an empty bucket answers with one page.
NumPages(objs) ==
    IF objs = <<>> THEN 1 ELSE (Len(objs) + PageSize - 1) \div PageSize

\* page['Contents'] of page k; <<>> when the page has no 'Contents'.
Contents(objs, k) ==
    SubSeq(objs, (k - 1) * PageSize + 1,
           IF k * PageSize <= Len(objs) THEN k * PageSize ELSE Len(objs))

RECURSIVE SumOfSizes(_)
SumOfSizes(s) == IF s = <<>> THEN 0 ELSE s[1].Size + SumOfSizes(Tail(s))

KeysOf(s) == [i \in DOMAIN s |-> s[i].Key]

ListingInit ==
    /\ RunOff
    /\ TrackerOff
    /\ R2Off
    /\ listing \in {"get_bucket_size", "list_files_in_bucket"}
    /\ list_client \in {"None", "live"}
    /\ objects \in BucketListings
    /\ lpc = "start"
    /\ lp = 1
    /\ total_size = 0
    /\ file_count = 0
    /\ files = <<>>
    /\ list_ret = <<>>
    /\ list_error = "none"

Listing(f) == listing = f /\ lpc \in {"start", "paging"}

\* `if not config['client']: return 0, 0`
get_bucket_size_no_client ==
    /\ Listing("get_bucket_size") /\ list_client = "None"
    /\ list_ret' = <<0, 0>>
    /\ lpc' = "returned"
    /\ UNCHANGED <<listing, list_client, objects, lp, total_size, file_count,
                   files, list_error>>

\* One iteration of `for page in pages`: the page's sizes are added up.
get_bucket_size_page ==
    /\ Listing("get_bucket_size") /\ list_client = "live"
    /\ lp <= NumPages(objects)
    /\ total_size' = total_size + SumOfSizes(Contents(objects, lp))
    /\ file_count' = file_count + Len(Contents(objects, lp))
    /\ lp' = lp + 1
    /\ lpc' = "paging"
    /\ UNCHANGED <<listing, list_client, objects, files, list_ret, list_error>>

\* `return total_size, file_count` after the last page.
get_bucket_size_returns ==
    /\ Listing("get_bucket_size") /\ list_client = "live"
    /\ lp > NumPages(objects)
    /\ list_ret' = <<total_size, file_count>>
    /\ lpc' = "returned"
    /\ UNCHANGED <<listing, list_client, objects, lp, total_size, file_count,
                   files, list_error>>

\* Mutant of get_bucket_size_fails: the handler returns what was added up.
get_bucket_size_fails_keeps ==
    /\ Listing("get_bucket_size") /\ list_client = "live"
    /\ lp <= NumPages(objects)
    /\ \E code \in ErrorCodes : list_error' = code
    /\ list_ret' = <<total_size, file_count>>
    /\ lpc' = "returned"
    /\ UNCHANGED <<listing, list_client, objects, lp, total_size, file_count, files>>

\* Fetching a page raises ClientError: both branches of the handler
\* `return 0, 0`.
get_bucket_size_fails ==
    /\ Listing("get_bucket_size") /\ list_client = "live"
    /\ lp <= NumPages(objects)
    /\ \E code \in ErrorCodes : list_error' = code
    /\ list_ret' = <<0, 0>>
    /\ lpc' = "returned"
    /\ UNCHANGED <<listing, list_client, objects, lp, total_size, file_count, files>>

\* Fetching a page raises something else: no handler, the exception leaves
\* get_bucket_size.
get_bucket_size_escapes ==
    /\ Listing("get_bucket_size") /\ list_client = "live"
    /\ lp <= NumPages(objects)
    /\ list_error' = "Other"
    /\ lpc' = "raised"
    /\ UNCHANGED <<listing, list_client, objects, lp, total_size, file_count,
                   files, list_ret>>

\* `if not s3_client: return []`
list_files_in_bucket_no_client ==
    /\ Listing("list_files_in_bucket") /\ list_client = "None"
    /\ list_ret' = <<>>
    /\ lpc' = "returned"
    /\ UNCHANGED <<listing, list_client, objects, lp, total_size, file_count,
                   files, list_error>>

\* One iteration of `for page in pages`: files.extend(the page's keys).
list_files_in_bucket_page ==
    /\ Listing("list_files_in_bucket") /\ list_client = "live"
    /\ lp <= NumPages(objects)
    /\ files' = files \o KeysOf(Contents(objects, lp))
    /\ lp' = lp + 1
    /\ lpc' = "paging"
    /\ UNCHANGED <<listing, list_client, objects, total_size, file_count,
                   list_ret, list_error>>

\* `if not files: return []`, else `return files`.
list_files_in_bucket_returns ==
    /\ Listing("list_files_in_bucket") /\ list_client = "live"
    /\ lp > NumPages(objects)
    /\ list_ret' = (IF files = <<>> THEN <<>> ELSE files)
    /\ lpc' = "returned"
    /\ UNCHANGED <<listing, list_client, objects, lp, total_size, file_count,
                   files, list_error>>

\* Fetching a page raises ClientError: the handler prints and `return []`.
list_files_in_bucket_fails ==
    /\ Listing("list_files_in_bucket") /\ list_client = "live"
    /\ lp <= NumPages(objects)
    /\ \E code \in ErrorCodes : list_error' = code
    /\ list_ret' = <<>>
    /\ lpc' = "returned"
    /\ UNCHANGED <<listing, list_client, objects, lp, total_size, file_count, files>>

\* Fetching a page raises something else: the exception leaves the function.
list_files_in_bucket_escapes ==
    /\ Listing("list_files_in_bucket") /\ list_client = "live"
    /\ lp <= NumPages(objects)
    /\ list_error' = "Other"
    /\ lpc' = "raised"
    /\ UNCHANGED <<listing, list_client, objects, lp, total_size, file_count,
                   files, list_ret>>

ListingNext ==
    /\ \/ get_bucket_size_no_client
       \/ get_bucket_size_page
       \/ get_bucket_size_returns
       \/ get_bucket_size_fails
       \/ get_bucket_size_escapes
       \/ list_files_in_bucket_no_client
       \/ list_files_in_bucket_page
       \/ list_files_in_bucket_returns
       \/ list_files_in_bucket_fails
       \/ list_files_in_bucket_escapes
    /\ UNCHANGED <<mainVars, trackerVars, r2Vars>>

ListingSpec == ListingInit /\ [][ListingNext]_vars

-----------------------------------------------------------------------------
(* Claim about a listing that fails part-way (C22), checked under           *)
(* ListingSpec.                                                             *)

\* The objects of the pages fetched before the current one.
ListedSoFar ==
    SubSeq(objects, 1,
           IF (lp - 1) * PageSize <= Len(objects) THEN (lp - 1) * PageSize
           ELSE Len(objects))

FailedPartWay == lpc = "returned" /\ list_error \in ErrorCodes /\ lp > 1

\* C22 as stated: when a listing fails after some pages, the caller gets what
\* was listed before the error: get_bucket_size returns the sum of the sizes
\* listed so far, list_files_in_bucket returns the keys listed so far.
C22_PartialListingIsKept ==
    FailedPartWay =>
        IF listing = "get_bucket_size"
        THEN list_ret[1] = SumOfSizes(ListedSoFar)
        ELSE list_ret = KeysOf(ListedSoFar)

\* C22, amended: a listing that raises ClientError, after however many pages,
\* gives its caller nothing of what it listed: get_bucket_size returns 0 bytes
\* and 0 files, list_files_in_bucket returns the empty list.  Only a listing
\* whose every page was fetched returns the sum of all sizes, or all keys.
C22_FailedListingIsDiscarded ==
    lpc = "returned" /\ list_client = "live" =>
        IF list_error \in ErrorCodes
        THEN list_ret = (IF listing = "get_bucket_size" THEN <<0, 0>> ELSE <<>>)
        ELSE /\ list_error = "none"
             /\ list_ret = (IF listing = "get_bucket_size"
                            THEN <<SumOfSizes(objects), Len(objects)>>
                            ELSE KeysOf(objects))

C22_Witness ==
    /\ FailedPartWay
    /\ ListedSoFar # <<>>
    /\ listing = "get_bucket_size"
    /\ total_size = SumOfSizes(ListedSoFar)
    /\ total_size > 0
    /\ list_ret = <<0, 0>>

-----------------------------------------------------------------------------
(* Claim about the tracker's byte count under concurrent callbacks (C23),   *)
(* checked under TrackerSpec.                                               *)

\* No worker is between the load and the store of `+=`.
IncrementsDone == \A w \in Workers : wpc[w] # "store"

\* C23 as stated: whenever every started increment has stored its result,
\* self.bytes_transferred equals the sum of the byte counts passed to
\* __call__, whichever way the workers' callbacks interleave.
C23_NoIncrementLost == IncrementsDone => bytes_transferred = passed

-----------------------------------------------------------------------------
(* Claim about the end of the upload loop (C25), checked under Spec.        *)

\* C25 as stated: upload_file is called at most once per (item, target)
\* pair, so at most |items| x |targets| times in a run, and every step of the
\* upload loop whose upload_file call came back, with success or with an
\* error, either stays in the loop or arrives at the summary: the run does
\* not end inside the loop.
C25_Step ==
    /\ \A p \in Pairs : upload_calls'[p] <= 1
    /\ Len(upload_log') <= Len(files_to_upload') * Len(configs)
    /\ (pc = "upload" /\ pc' # "stalled") => pc' \in {"upload", "summary"}

C25_UploadLoopReachesSummary == [][C25_Step]_vars

-----------------------------------------------------------------------------
(* The single-target uploader                                               *)
(* (src/individual_s3_upload_folder_cloudflare_r2_api.py): one run of its   *)
(* __main__ block against one bucket whose objects are part of the state.   *)
(* Nothing but this run writes to the bucket.                               *)

\* MAX_TOTAL_SIZE_GB, a value of the script's configuration section (9.5 as
\* shipped); 1 here, which keeps every byte count within TLC's integers.
MAX_TOTAL_SIZE_GB == 1

\* Keys the bucket may hold before the run: one that a local file's name
\* matches and one that none matches.
BucketKeys == {EntryNames[1], "z"}

\* Sum of the sizes of the bucket's objects, as list_objects_v2 reports them.
RECURSIVE SumOver(_, _)
SumOver(b, K) ==
    IF K = {} THEN 0
    ELSE LET k == CHOOSE x \in K : TRUE IN b[k] + SumOver(b, K \ {k})

Occupied(b) == SumOver(b, DOMAIN b)

\* The buckets the run may find: empty, nearly full, or full.
BucketChoices ==
    {b \in UNION {[K -> {1, GiB - 1}] : K \in SUBSET BucketKeys} :
        \A k1 \in DOMAIN b : \A k2 \in DOMAIN b :
            (b[k1] = GiB - 1 /\ b[k2] = GiB - 1) => k1 = k2}

\* What of the multi-cloud uploader's state the single-target script lacks.
restVars == <<enabled, max_size_gb, clientVars, ti, size_check_results,
              size_queries, size_query_failed, cap_evals, upVars, preVars,
              bucketVars, faults>>

callVars == <<head_calls, head_result, create_calls, create_result, bucket_ret>>

R2Init ==
    /\ RestOff
    /\ TrackerOff
    /\ ListingOff
    /\ folder_exists \in BOOLEAN
    /\ folder \in FolderListings
    /\ (~folder_exists => folder = <<>>)
    /\ pc = "head"
    /\ fi = 1
    /\ files_to_upload = <<>>
    /\ new_files_size = 0
    /\ existing_size = 0
    /\ exit_code = -1
    /\ bucket_exists \in BOOLEAN
    /\ bucket \in BucketChoices
    /\ (~bucket_exists => bucket = <<>>)
    /\ head_calls = 0
    /\ head_result = "none"
    /\ create_calls = 0
    /\ create_result = "none"
    /\ bucket_ret = "none"
    /\ query_failed = FALSE
    /\ check_passed = "none"
    /\ uploaded_files = <<>>

\* exit(code)
Exit(code) ==
    /\ pc' = "exited"
    /\ exit_code' = code

\* create_bucket_if_not_exists: head_bucket returns, the function returns
\* True.
head_bucket_ok ==
    /\ pc = "head"
    /\ bucket_exists
    /\ head_calls' = head_calls + 1
    /\ head_result' = "ok"
    /\ bucket_ret' = "True"
    /\ pc' = "size"
    /\ UNCHANGED <<create_calls, create_result, bucket_exists, bucket, fi,
                   files_to_upload, new_files_size, existing_size, exit_code,
                   query_failed, check_passed, uploaded_files>>

\* head_bucket raises ClientError with code '404': create_bucket is next.
head_bucket_404 ==
    /\ pc = "head"
    /\ ~bucket_exists
    /\ head_calls' = head_calls + 1
    /\ head_result' = "404"
    /\ pc' = "create"
    /\ UNCHANGED <<create_calls, create_result, bucket_ret, bucket_exists, bucket,
                   fi, files_to_upload, new_files_size, existing_size, exit_code,
                   query_failed, check_passed, uploaded_files>>

\* Mutant of head_bucket_fails: any ClientError leads to create_bucket.
head_bucket_fails_creates ==
    /\ pc = "head"
    /\ head_calls' = head_calls + 1
    /\ head_result' = "ClientError"
    /\ pc' = "create"
    /\ UNCHANGED <<create_calls, create_result, bucket_ret, bucket_exists, bucket,
                   fi, files_to_upload, new_files_size, existing_size, exit_code,
                   query_failed, check_passed, uploaded_files>>

\* head_bucket raises ClientError with another code: the function returns
\* False, and __main__ does exit(1).
head_bucket_fails ==
    /\ pc = "head"
    /\ head_calls' = head_calls + 1
    /\ head_result' = "ClientError"
    /\ bucket_ret' = "False"
    /\ Exit(1)
    /\ UNCHANGED <<create_calls, create_result, bucket_exists, bucket, fi,
                   files_to_upload, new_files_size, existing_size,
                   query_failed, check_passed, uploaded_files>>

\* head_bucket raises something that is not a ClientError.
head_bucket_escapes ==
    /\ pc = "head"
    /\ head_calls' = head_calls + 1
    /\ head_result' = "Other"
    /\ pc' = "crashed"
    /\ UNCHANGED <<create_calls, create_result, bucket_ret, bucket_exists, bucket,
                   fi, files_to_upload, new_files_size, existing_size, exit_code,
                   query_failed, check_passed, uploaded_files>>

\* create_bucket returns: the function returns True.
create_bucket_ok ==
    /\ pc = "create"
    /\ create_calls' = create_calls + 1
    /\ create_result' = "ok"
    /\ bucket_exists' = TRUE
    /\ bucket_ret' = "True"
    /\ pc' = "size"
    /\ UNCHANGED <<head_calls, head_result, bucket, fi, files_to_upload,
                   new_files_size, existing_size, exit_code, query_failed,
                   check_passed, uploaded_files>>

\* create_bucket raises ClientError: the function returns False, and
\* __main__ does exit(1).
create_bucket_fails ==
    /\ pc = "create"
    /\ create_calls' = create_calls + 1
    /\ create_result' = "ClientError"
    /\ bucket_ret' = "False"
    /\ Exit(1)
    /\ UNCHANGED <<head_calls, head_result, bucket_exists, bucket, fi,
                   files_to_upload, new_files_size, existing_size, query_failed,
                   check_passed, uploaded_files>>

\* create_bucket raises something that is not a ClientError.
create_bucket_escapes ==
    /\ pc = "create"
    /\ create_calls' = create_calls + 1
    /\ create_result' = "Other"
    /\ pc' = "crashed"
    /\ UNCHANGED <<head_calls, head_result, bucket_ret, bucket_exists, bucket, fi,
                   files_to_upload, new_files_size, existing_size, exit_code,
                   query_failed, check_passed, uploaded_files>>

\* get_bucket_size lists the bucket and returns the sum of the sizes.
r2_get_bucket_size_returns ==
    /\ pc = "size"
    /\ existing_size' = Occupied(bucket)
    /\ pc' = "scan"
    /\ UNCHANGED <<callVars, bucket_exists, bucket, fi, files_to_upload,
                   new_files_size, exit_code, query_failed, check_passed,
                   uploaded_files>>

\* The listing raises ClientError: get_bucket_size returns 0, 0.
r2_get_bucket_size_fails ==
    /\ pc = "size"
    /\ existing_size' = 0
    /\ query_failed' = TRUE
    /\ pc' = "scan"
    /\ UNCHANGED <<callVars, bucket_exists, bucket, fi, files_to_upload,
                   new_files_size, exit_code, check_passed, uploaded_files>>

\* The listing raises something that is not a ClientError.
r2_get_bucket_size_escapes ==
    /\ pc = "size"
    /\ pc' = "crashed"
    /\ UNCHANGED <<callVars, bucket_exists, bucket, fi, files_to_upload,
                   new_files_size, existing_size, exit_code, query_failed,
                   check_passed, uploaded_files>>

\* get_local_files_size(FOLDER_PATH) returns and `if not files_to_upload:
\* exit(0)`.
r2_get_local_files_size_returns ==
    /\ pc = "scan"
    /\ files_to_upload' = ScannedFiles
    /\ new_files_size' = SumSizes(ScannedFiles)
    /\ IF ScannedFiles = <<>>
       THEN Exit(0)
       ELSE /\ pc' = "check"
            /\ UNCHANGED exit_code
    /\ UNCHANGED <<callVars, bucket_exists, bucket, fi, existing_size,
                   query_failed, check_passed, uploaded_files>>

\* os.listdir or os.path.getsize raises (the path is not a directory, or
\* cannot be read): the call is in no try, the exception ends the script.
r2_get_local_files_size_escapes ==
    /\ pc = "scan"
    /\ folder_exists
    /\ pc' = "crashed"
    /\ UNCHANGED <<callVars, bucket_exists, bucket, fi, files_to_upload,
                   new_files_size, existing_size, exit_code, query_failed,
                   check_passed, uploaded_files>>

\* get_local_files_size(FOLDER_PATH), as the R2 script's __main__ calls it.
r2_get_local_files_size ==
    \/ r2_get_local_files_size_returns
    \/ r2_get_local_files_size_escapes

\* Mutant of r2_check_size_limit: the upload goes ahead whatever the verdict.
r2_check_size_limit_ignored ==
    /\ pc = "check"
    /\ check_passed' = "True"
    /\ pc' = "upload"
    /\ UNCHANGED exit_code
    /\ UNCHANGED <<callVars, bucket_exists, bucket, fi, files_to_upload,
                   new_files_size, existing_size, query_failed, uploaded_files>>

\* `if not check_size_limit(existing_size, new_files_size): exit(1)`
r2_check_size_limit ==
    /\ pc = "check"
    /\ IF check_size_limit(<<MAX_TOTAL_SIZE_GB>>, existing_size, new_files_size)
       THEN /\ check_passed' = "True"
            /\ pc' = "upload"
            /\ UNCHANGED exit_code
       ELSE /\ check_passed' = "False"
            /\ Exit(1)
    /\ UNCHANGED <<callVars, bucket_exists, bucket, fi, files_to_upload,
                   new_files_size, existing_size, query_failed, uploaded_files>>

\* The for-loop of upload_files: next file, or return to __main__.
NextFile ==
    IF fi < Len(files_to_upload)
    THEN /\ fi' = fi + 1
         /\ UNCHANGED pc
    ELSE /\ fi' = 1
         /\ pc' = "report"

\* The bucket after an object of the given size is stored under the key: an
\* object already there is replaced.
put_object(b, key, size) == SetItem(b, key, size)

\* upload_file returns: the object is in the bucket, the name is appended.
upload_files_succeeds ==
    /\ pc = "upload"
    /\ bucket' = put_object(bucket, files_to_upload[fi].name, files_to_upload[fi].size)
    /\ uploaded_files' = Append(uploaded_files, files_to_upload[fi].name)
    /\ NextFile
    /\ UNCHANGED <<callVars, bucket_exists, files_to_upload, new_files_size,
                   existing_size, exit_code, query_failed, check_passed>>

\* upload_file raises ClientError: caught, the loop goes on.  The object may
\* or may not have been stored before the error came back.
upload_files_fails ==
    /\ pc = "upload"
    /\ \E stored \in BOOLEAN :
         bucket' = IF stored
                   THEN put_object(bucket, files_to_upload[fi].name,
                                   files_to_upload[fi].size)
                   ELSE bucket
    /\ NextFile
    /\ UNCHANGED <<callVars, bucket_exists, files_to_upload, new_files_size,
                   existing_size, exit_code, query_failed, check_passed,
                   uploaded_files>>

\* upload_file raises something that is not a ClientError: nothing catches
\* it.
upload_files_escapes ==
    /\ pc = "upload"
    /\ \E stored \in BOOLEAN :
         bucket' = IF stored
                   THEN put_object(bucket, files_to_upload[fi].name,
                                   files_to_upload[fi].size)
                   ELSE bucket
    /\ pc' = "crashed"
    /\ UNCHANGED <<callVars, bucket_exists, fi, files_to_upload, new_files_size,
                   existing_size, exit_code, query_failed, check_passed,
                   uploaded_files>>

\* What follows upload_files in __main__: with uploads, the final
\* get_bucket_size and generate_presigned_urls, whose calls return or raise
\* ClientError; without, "No files were uploaded".
r2_report ==
    /\ pc = "report"
    /\ pc' = "done"
    /\ UNCHANGED <<callVars, bucket_exists, bucket, fi, files_to_upload,
                   new_files_size, existing_size, exit_code, query_failed,
                   check_passed, uploaded_files>>

\* A call of the final report raises something that is not a ClientError.
r2_report_escapes ==
    /\ pc = "report"
    /\ uploaded_files # <<>>
    /\ pc' = "crashed"
    /\ UNCHANGED <<callVars, bucket_exists, bucket, fi, files_to_upload,
                   new_files_size, existing_size, exit_code, query_failed,
                   check_passed, uploaded_files>>

R2Next ==
    /\ \/ head_bucket_ok
       \/ head_bucket_404
       \/ head_bucket_fails
       \/ head_bucket_escapes
       \/ create_bucket_ok
       \/ create_bucket_fails
       \/ create_bucket_escapes
       \/ r2_get_bucket_size_returns
       \/ r2_get_bucket_size_fails
       \/ r2_get_bucket_size_escapes
       \/ r2_get_local_files_size
       \/ r2_check_size_limit
       \/ upload_files_succeeds
       \/ upload_files_fails
       \/ upload_files_escapes
       \/ r2_report
       \/ r2_report_escapes
    /\ UNCHANGED <<restVars, folder_exists, folder, trackerVars, listVars>>

R2Spec == R2Init /\ [][R2Next]_vars

-----------------------------------------------------------------------------
(* Claims about the single-target uploader (C24, C26), checked under        *)
(* R2Spec.                                                                  *)

\* The upload loop has been entered.
Uploading == check_passed = "True"

\* C24: when the existing-size query succeeded and the batch was admitted,
\* the bucket's occupied size is at most the quota after every step of the
\* upload loop and after it, whichever uploads succeed or fail and whether or
\* not an uploaded name replaces an object already in the bucket; it is never
\* more than the size measured before the batch plus the batch.
C24_OccupancyStaysWithinQuota ==
    (Uploading /\ ~query_failed) =>
        /\ Occupied(bucket) <= max_size_bytes(<<MAX_TOTAL_SIZE_GB>>)
        /\ Occupied(bucket) <= existing_size + new_files_size

\* The batch filled the quota to the last byte on paper, one upload failed,
\* and one replaced a larger object of the same name.
C24_Witness ==
    /\ Uploading /\ ~query_failed
    /\ pc = "report"
    /\ Len(uploaded_files) < Len(files_to_upload)
    /\ uploaded_files # <<>>
    /\ existing_size + new_files_size = max_size_bytes(<<MAX_TOTAL_SIZE_GB>>)
    /\ Occupied(bucket) < existing_size

\* C26: create_bucket is called only after head_bucket answered '404', and
\* at most once; when head_bucket returned or raised anything else,
\* create_bucket is not called; and create_bucket_if_not_exists returns True
\* exactly when head_bucket returned or create_bucket returned.
C26_CreatesOnlyAfter404 ==
    /\ head_calls <= 1
    /\ create_calls <= 1
    /\ create_calls = 1 => head_result = "404"
    /\ head_result \in {"ok", "ClientError", "Other"} => create_calls = 0
    /\ bucket_ret = "True" <=> (head_result = "ok" \/ create_result = "ok")
    /\ bucket_ret = "False" <=>
           (head_result = "ClientError" \/ create_result = "ClientError")

C26_Witness ==
    /\ head_result = "404"
    /\ create_calls = 1
    /\ create_result = "ok"
    /\ bucket_ret = "True"
    /\ bucket_exists

-----------------------------------------------------------------------------
(* upload_files of the single-target uploader with its progress reporting:  *)
(* the module-level counters bytes_transferred, total_bytes, start_time and *)
(* last_print_time, reset before each file, and progress_callback, which    *)
(* the transfer workers of the running upload_file call invoke.  upload_file*)
(* returns or raises only after its workers have finished.                  *)

\* Module-level `bytes_transferred = 0` ... `last_print_time = 0`, and
\* upload_files entered with the files get_local_files_size found.
UploadFilesInit ==
    /\ RestOff
    /\ ListingOff
    /\ R2Off
    /\ folder_exists = TRUE
    /\ folder \in FolderListings
    /\ files_to_upload = ScannedFiles
    /\ files_to_upload # <<>>
    /\ new_files_size = SumSizes(ScannedFiles)
    /\ existing_size = 0
    /\ exit_code = -1
    /\ pc = "reset"
    /\ fi = 1
    /\ tracker = "off"
    /\ total_bytes = 0
    /\ bytes_transferred = 0
    /\ start_time = 0
    /\ last_print_time = 0
    /\ clock = 0
    /\ wpc = [w \in Workers |-> "idle"]
    /\ new_bytes = [w \in Workers |-> 0]
    /\ loaded = [w \in Workers |-> 0]
    /\ current_time = [w \in Workers |-> 0]
    /\ remaining_bytes = [w \in Workers |-> 0]
    /\ estimated_remaining_time = [w \in Workers |-> Unknown]
    /\ raised = {}
    /\ printed = <<>>
    /\ calls = 0
    /\ passed = 0

\* Wall-clock time advances by a second.  Between two files nothing reads
\* the clock but the reset, which restarts both time stamps from it, so time
\* is let pass during transfers only.
clock_advances ==
    /\ pc = "transfer"
    /\ clock + Second <= MaxSeconds * Second
    /\ clock' = clock + Second
    /\ UNCHANGED <<pc, fi, uploaded_files, total_bytes, bytes_transferred,
                   start_time, last_print_time, wpc, new_bytes, loaded,
                   current_time, remaining_bytes, estimated_remaining_time,
                   raised, printed, calls, passed>>

\* Mutant of upload_files_resets: bytes_transferred is left as it is.
upload_files_resets_total_only ==
    /\ pc = "reset"
    /\ total_bytes' = files_to_upload[fi].size
    /\ start_time' = clock
    /\ last_print_time' = clock
    /\ passed' = 0
    /\ pc' = "transfer"
    /\ UNCHANGED <<fi, uploaded_files, bytes_transferred, clock, wpc, new_bytes,
                   loaded, current_time, remaining_bytes,
                   estimated_remaining_time, raised, printed, calls>>

\* `total_bytes = file_size; bytes_transferred = 0; start_time = time.time();
\* last_print_time = start_time`, then upload_file is called.  `passed`
\* restarts with the file: the bytes handed to progress_callback for it.
upload_files_resets ==
    /\ pc = "reset"
    /\ total_bytes' = files_to_upload[fi].size
    /\ bytes_transferred' = 0
    /\ start_time' = clock
    /\ last_print_time' = clock
    /\ passed' = 0
    /\ pc' = "transfer"
    /\ UNCHANGED <<fi, uploaded_files, clock, wpc, new_bytes, loaded,
                   current_time, remaining_bytes, estimated_remaining_time,
                   raised, printed, calls>>

\* A worker enters progress_callback and `+=` loads bytes_transferred.
progress_callback_loads ==
    /\ pc = "transfer"
    /\ calls < MaxCalls
    /\ \E w \in Workers : \E n \in NewBytesChoices :
         /\ wpc[w] = "idle"
         /\ new_bytes' = [new_bytes EXCEPT ![w] = n]
         /\ passed' = passed + n
         /\ loaded' = [loaded EXCEPT ![w] = bytes_transferred]
         /\ wpc' = [wpc EXCEPT ![w] = "store"]
    /\ calls' = calls + 1
    /\ UNCHANGED <<pc, fi, uploaded_files, total_bytes, bytes_transferred,
                   start_time, last_print_time, clock, current_time,
                   remaining_bytes, estimated_remaining_time, raised, printed>>

\* `+=` stores the sum; current_time = time.time().  Neither the loaded
\* value nor new_bytes is read again.
progress_callback_stores ==
    /\ pc = "transfer"
    /\ \E w \in Workers :
         /\ wpc[w] = "store"
         /\ bytes_transferred' = loaded[w] + new_bytes[w]
         /\ current_time' = [current_time EXCEPT ![w] = clock]
         /\ loaded' = [loaded EXCEPT ![w] = 0]
         /\ new_bytes' = [new_bytes EXCEPT ![w] = 0]
         /\ wpc' = [wpc EXCEPT ![w] = "test"]
    /\ UNCHANGED <<pc, fi, uploaded_files, total_bytes, start_time,
                   last_print_time, clock, remaining_bytes,
                   estimated_remaining_time, raised, printed, calls, passed>>

\* Less than a second since last_print_time: progress_callback returns.
progress_callback_returns ==
    /\ pc = "transfer"
    /\ \E w \in Workers :
         /\ wpc[w] = "test"
         /\ ~Due(current_time[w], last_print_time)
         /\ current_time' = [current_time EXCEPT ![w] = 0]
         /\ wpc' = [wpc EXCEPT ![w] = "idle"]
    /\ UNCHANGED <<pc, fi, uploaded_files, total_bytes, bytes_transferred,
                   start_time, last_print_time, clock, new_bytes, loaded,
                   remaining_bytes, estimated_remaining_time, raised,
                   printed, calls, passed>>

\* A second or more since last_print_time: a line is due, and
\* elapsed_time = max(current_time - start_time, 0.001) is computed from
\* values that no callback changes.  The call of max() returns before
\* bytes_transferred is read.
progress_callback_elapses ==
    /\ pc = "transfer"
    /\ \E w \in Workers :
         /\ wpc[w] = "test"
         /\ Due(current_time[w], last_print_time)
         /\ wpc' = [wpc EXCEPT ![w] = "measure"]
    /\ UNCHANGED <<pc, fi, uploaded_files, total_bytes, bytes_transferred,
                   start_time, last_print_time, clock, new_bytes, loaded,
                   current_time, remaining_bytes, estimated_remaining_time,
                   raised, printed, calls, passed>>

\* remaining_bytes is computed from bytes_transferred and
\* `if bytes_transferred > 0` is tested; when it is false,
\* estimated_remaining_time = "Unknown" and remaining_bytes is not read again.
progress_callback_measures ==
    /\ pc = "transfer"
    /\ \E w \in Workers :
         /\ wpc[w] = "measure"
         /\ IF eta_known(bytes_transferred)
            THEN /\ remaining_bytes' =
                        [remaining_bytes EXCEPT ![w] = total_bytes - bytes_transferred]
                 /\ wpc' = [wpc EXCEPT ![w] = "estimate"]
                 /\ UNCHANGED estimated_remaining_time
            ELSE /\ wpc' = [wpc EXCEPT ![w] = "print"]
                 /\ estimated_remaining_time' =
                        [estimated_remaining_time EXCEPT ![w] = Unknown]
                 /\ UNCHANGED remaining_bytes
    /\ UNCHANGED <<pc, fi, uploaded_files, total_bytes, bytes_transferred,
                   start_time, last_print_time, clock, new_bytes, loaded,
                   current_time, raised, printed, calls, passed>>

\* estimated_seconds divides remaining_bytes by the throughput of the
\* bytes_transferred it reads now, and estimated_remaining_time is built
\* from it; remaining_bytes is not read again.
progress_callback_estimates ==
    /\ pc = "transfer"
    /\ \E w \in Workers :
         /\ wpc[w] = "estimate"
         /\ bytes_transferred # 0
         /\ estimated_remaining_time' =
                [estimated_remaining_time EXCEPT ![w] =
                    <<estimated_seconds(remaining_bytes[w], bytes_transferred,
                                        elapsed_time(current_time[w], start_time))>>]
         /\ remaining_bytes' = [remaining_bytes EXCEPT ![w] = 0]
         /\ wpc' = [wpc EXCEPT ![w] = "print"]
    /\ UNCHANGED <<pc, fi, uploaded_files, total_bytes, bytes_transferred,
                   start_time, last_print_time, clock, new_bytes, loaded,
                   current_time, raised, printed, calls, passed>>

\* The ETA's division raises ZeroDivisionError (bytes_transferred /
\* elapsed_time is 0): the exception ends this progress_callback call and
\* goes to the transfer that made it.
progress_callback_raises ==
    /\ pc = "transfer"
    /\ \E w \in Workers :
         /\ wpc[w] = "estimate"
         /\ bytes_transferred = 0
         /\ remaining_bytes' = [remaining_bytes EXCEPT ![w] = 0]
         /\ current_time' = [current_time EXCEPT ![w] = 0]
         /\ wpc' = [wpc EXCEPT ![w] = "idle"]
    /\ UNCHANGED <<pc, fi, uploaded_files, total_bytes, bytes_transferred,
                   start_time, last_print_time, clock, new_bytes, loaded,
                   estimated_remaining_time, raised, printed, calls, passed>>

\* The line progress_callback prints (transferred and total size, and the
\* ETA), with the file being uploaded: b is bytes_transferred as the
\* f-string reads it, eta the estimated_remaining_time computed before.
callback_line(file, total, b, eta) ==
    [file |-> file,
     bytes |-> b,
     total |-> total,
     eta |-> eta]

\* The line is printed: it starts with '\r' and ends without a newline, so
\* it takes the place of the progress line printed before it (`printed` is
\* the progress line being rewritten).  estimated_remaining_time is not read
\* again.
progress_callback_prints ==
    /\ pc = "transfer"
    /\ \E w \in Workers :
         /\ wpc[w] = "print"
         /\ printed' = <<callback_line(fi, total_bytes, bytes_transferred,
                                       estimated_remaining_time[w])>>
         /\ estimated_remaining_time' =
                [estimated_remaining_time EXCEPT ![w] = Unknown]
         /\ wpc' = [wpc EXCEPT ![w] = "stamp"]
    /\ UNCHANGED <<pc, fi, uploaded_files, total_bytes, bytes_transferred,
                   start_time, last_print_time, clock, new_bytes, loaded,
                   current_time, remaining_bytes, raised, calls, passed>>

\* last_print_time = current_time, and progress_callback returns.
progress_callback_stamps ==
    /\ pc = "transfer"
    /\ \E w \in Workers :
         /\ wpc[w] = "stamp"
         /\ last_print_time' = current_time[w]
         /\ current_time' = [current_time EXCEPT ![w] = 0]
         /\ wpc' = [wpc EXCEPT ![w] = "idle"]
    /\ UNCHANGED <<pc, fi, uploaded_files, total_bytes, bytes_transferred,
                   start_time, clock, new_bytes, loaded, remaining_bytes,
                   estimated_remaining_time, raised, printed, calls, passed>>

\* The workers of the running upload_file call have all finished.
WorkersJoined == \A w \in Workers : wpc[w] = "idle"

\* The for-loop of upload_files: the next file's reset, or the return.
NextReset ==
    IF fi < Len(files_to_upload)
    THEN /\ fi' = fi + 1
         /\ pc' = "reset"
    ELSE /\ fi' = 1
         /\ pc' = "returned"

\* upload_file returns: the success message starts with a newline, which
\* ends the progress line, and uploaded_files.append(item_name)
transfer_succeeds ==
    /\ pc = "transfer"
    /\ WorkersJoined
    /\ printed' = <<>>
    /\ uploaded_files' = Append(uploaded_files, files_to_upload[fi].name)
    /\ NextReset
    /\ UNCHANGED <<total_bytes, bytes_transferred, start_time, last_print_time,
                   clock, wpc, new_bytes, loaded, current_time, remaining_bytes,
                   estimated_remaining_time, raised, calls, passed>>

\* upload_file raises ClientError: caught, the failure message starts with
\* a newline, which ends the progress line, and the loop goes on.
transfer_fails ==
    /\ pc = "transfer"
    /\ WorkersJoined
    /\ printed' = <<>>
    /\ NextReset
    /\ UNCHANGED <<uploaded_files, total_bytes, bytes_transferred, start_time,
                   last_print_time, clock, wpc, new_bytes, loaded, current_time,
                   remaining_bytes, estimated_remaining_time, raised,
                   calls, passed>>

\* upload_file raises something that is not a ClientError.
transfer_escapes ==
    /\ pc = "transfer"
    /\ WorkersJoined
    /\ pc' = "crashed"
    /\ UNCHANGED <<fi, uploaded_files, total_bytes, bytes_transferred, start_time,
                   last_print_time, clock, wpc, new_bytes, loaded, current_time,
                   remaining_bytes, estimated_remaining_time, raised,
                   printed, calls, passed>>

UploadFilesNext ==
    /\ \/ clock_advances
       \/ upload_files_resets
       \/ progress_callback_loads
       \/ progress_callback_stores
       \/ progress_callback_returns
       \/ progress_callback_elapses
       \/ progress_callback_measures
       \/ progress_callback_estimates
       \/ progress_callback_raises
       \/ progress_callback_prints
       \/ progress_callback_stamps
       \/ transfer_succeeds
       \/ transfer_fails
       \/ transfer_escapes
    /\ UNCHANGED <<restVars, folder_exists, folder, files_to_upload, new_files_size,
                   existing_size, exit_code, listVars, callVars, bucket_exists,
                   bucket, query_failed, check_passed, tracker>>

UploadFilesSpec == UploadFilesInit /\ [][UploadFilesNext]_vars

-----------------------------------------------------------------------------
(* Claim about the per-file reset of the progress counters (C27), checked   *)
(* under UploadFilesSpec.                                                   *)

\* C27: while a file is being uploaded, total_bytes is that file's size and
\* bytes_transferred counts no more than the bytes handed to
\* progress_callback for that file; every printed line shows, for the file it
\* was printed for, that file's size as the total; and the step that starts a
\* file's upload leaves bytes_transferred at 0, whatever the earlier files
\* left there and whether they succeeded or failed.
C27_Step ==
    /\ pc' = "transfer" =>
          /\ total_bytes' = files_to_upload[fi'].size
          /\ bytes_transferred' >= 0
          /\ bytes_transferred' <= passed'
    /\ (pc = "reset" /\ pc' = "transfer") => bytes_transferred' = 0
    /\ \A i \in DOMAIN printed' :
          /\ printed'[i].total = files_to_upload[printed'[i].file].size
          /\ wpc' # wpc /\ (\E w \in Workers : wpc'[w] = "stamp" /\ wpc[w] = "print") =>
                 /\ printed'[i].file = fi
                 /\ printed'[i].bytes <= passed'

C27_CountersRestartPerFile == [][C27_Step]_vars

\* The second file is being uploaded after the first one failed with bytes
\* counted, and a line has been printed for it.
C27_Witness ==
    /\ pc = "transfer"
    /\ fi = 2
    /\ uploaded_files = <<>>
    /\ calls >= 2
    /\ bytes_transferred < calls
    /\ printed # <<>>
    /\ printed[Len(printed)].file = 2

====
